---- MODULE Spec2Model ----
(***************************************************************************)
(* Model of the siro-scraper programs:                                     *)
(*   fda_optimized.py        primary catalog scrape with parallel download *)
(*   fda_retry_failed.py     download_file of the reconciliation module    *)
(*   who_selenium_scraper.py publication-list collection                   *)
(* Strings the programs transform are sequences of one-character strings.  *)
(***************************************************************************)
EXTENDS Integers, Sequences, FiniteSets, TLC

VARIABLES
    prog,              \* which program this run executes
    pc,                \* position of the control thread in main()
    args,              \* parsed command line: [start, end, no_download]
    start_page, end_page, page_num,
    site,              \* which catalog the rendering engine shows
    view,              \* page the rendered table currently shows
    driver,            \* "none" | "running" | "quit"
    nav_i,             \* loop index of navigate_sequential_fast
    nav_ok,            \* result of the initial navigation
    all_entries, seen_titles, new_entries,
    new_pos,           \* position on the page of each new entry (history)
    sub_i,             \* loop index of the submit loop of a batch
    results,           \* aggregate of the running batch
    tasks,             \* futures of the running batch
    files,             \* output directory: filename -> size in bytes
    totals,            \* total_downloaded / total_skipped / total_failed
    csv,               \* lines of the checkpoint snapshot, or NoCsv
    batch_log,         \* aggregates returned so far (history)
    run, first_run,    \* second call of the download phase, and the first's outcome
    total_pages, all_pub_entries, seen_detail_urls,
    who_view,          \* page the publication list currently shows
    fetch_log,         \* what each pass of a single download call received (history)
    rows,              \* rendered rows handed to the field extractor
    extracted,         \* what the field extractor returned, or <<"none">>
    method_log,        \* strategies navigate_to_page_direct has tried (history)
    interrupted,       \* a KeyboardInterrupt has been delivered (history)
    cadence_n,         \* entries collected by the end of the last page that is a
                       \* multiple of 10, or -1 (history)
    page_log,          \* extraction of each page of this run, in order (history)
    saved_n,           \* entries the collection held at the last save_to_csv call
                       \* of this run, or -1 (history)
    submitted,         \* dedupe keys of the entries submitted to the pool in this
                       \* run, in order (history)
    assigned,          \* the index download_batch_parallel computed for each of
                       \* them, with the entry (history)
    waited,            \* wait_for_table was called after the last navigation (history)
    existing_titles,   \* fda_retry_failed.py: what scan_existing_files returned
    missing_entries,   \* fda_retry_failed.py: the gap set, in scan order
    item_i,            \* fda_retry_failed.py: loop index of the download loop
    refreshed_at,      \* loop indexes at which the session was recreated (history)
    fetched,           \* titles the download loop has sent a request for (history)
    server,            \* how the origin answers the requests of this run
    input, output      \* argument and result of the function under test

vars == <<prog, pc, args, start_page, end_page, page_num, site, view, driver,
          nav_i, nav_ok, all_entries, seen_titles, new_entries, new_pos, sub_i,
          results, tasks, files, totals, csv, batch_log, run, first_run,
          total_pages, all_pub_entries, seen_detail_urls, who_view, fetch_log,
          rows, extracted, method_log, interrupted, cadence_n, page_log, saved_n,
          submitted, assigned, waited, existing_titles, missing_entries, item_i,
          refreshed_at, fetched, server, input, output>>

retryVars == <<existing_titles, missing_entries, item_i, refreshed_at, fetched, server>>
pureVars == <<input, output>>

---------------------------------------------------------------------------
\* Program constants

TOTAL_PAGES == 280
ITEMS_PER_PAGE == 10
MAX_DOWNLOAD_WORKERS == 5
MIN_SIZE == 1000
MAX_NAME == 150
BULK_ATTEMPTS == 3
RETRY_ATTEMPTS == 2
SAVE_EVERY == 10
WHO_DEFAULT_PAGES == 9

\* Bounds of the model

MaxEndPage == 3      \* largest --end argument tried
MaxPubPages == 3     \* largest page count the publication list reports

---------------------------------------------------------------------------
\* Strings

Whitespace == {" ", "\t", "\n"}
Forbidden == {"<", ">", ":", "\"", "/", "\\", "|", "?", "*"}

Min(a, b) == IF a < b THEN a ELSE b
Max(a, b) == IF a > b THEN a ELSE b

\* str.lstrip() and str.rstrip(): what is left from the first, and up to the
\* last, character that is not whitespace
Solid(s) == {i \in 1..Len(s) : s[i] \notin Whitespace}

LStrip(s) ==
    IF Solid(s) = {} THEN <<>>
    ELSE SubSeq(s, CHOOSE i \in Solid(s) : \A j \in Solid(s) : i <= j, Len(s))

RStrip(s) ==
    IF Solid(s) = {} THEN <<>>
    ELSE SubSeq(s, 1, CHOOSE i \in Solid(s) : \A j \in Solid(s) : i >= j)

\* Mutant of Strip: only the leading whitespace is removed
StripLeft(s) == LStrip(s)

Strip(s) == RStrip(LStrip(s))

\* re.sub(pattern+, repl, s) for a one-character class: every maximal run of
\* characters of the class becomes repl, that is, each character of the class
\* is dropped unless it ends its run, and then it is replaced
SubRuns(s, class, repl) ==
    LET EndsRun(i) == i = Len(s) \/ s[i + 1] \notin class
        kept == SelectSeq([i \in 1..Len(s) |-> i],
                          LAMBDA i : s[i] \notin class \/ EndsRun(i))
    IN  [k \in 1..Len(kept) |-> IF s[kept[k]] \in class THEN repl ELSE s[kept[k]]]

DefaultName == <<"f", "i", "l", "e">>

sanitize_filename(name) ==
    LET n1 == IF name # <<>> THEN Strip(name) ELSE DefaultName
        n2 == SubRuns(n1, Forbidden, "_")
        n3 == SubRuns(n2, Whitespace, " ")
        n4 == Strip(SubSeq(n3, 1, Min(Len(n3), MAX_NAME)))
    IN  IF n4 # <<>> THEN n4 ELSE DefaultName

Digit(d) == CASE d = 0 -> "0" [] d = 1 -> "1" [] d = 2 -> "2" [] d = 3 -> "3"
              [] d = 4 -> "4" [] d = 5 -> "5" [] d = 6 -> "6" [] d = 7 -> "7"
              [] d = 8 -> "8" [] d = 9 -> "9"

RECURSIVE Decimal(_)
Decimal(n) == IF n < 10 THEN <<Digit(n)>> ELSE Decimal(n \div 10) \o <<Digit(n % 10)>>

RECURSIVE ZeroPad(_, _)
ZeroPad(s, width) == IF Len(s) >= width THEN s ELSE ZeroPad(<<"0">> \o s, width)

\* f"{index:04d}_{sanitize_filename(title)}.pdf"
Filename(index, title) ==
    ZeroPad(Decimal(index), 4) \o <<"_">> \o sanitize_filename(title)
        \o <<".", "p", "d", "f">>

\* f"{entry['title']}|{entry.get('date', '')}"
DedupeKey(entry) == entry.title \o <<"|">> \o entry.date

---------------------------------------------------------------------------
\* The output directory

\* Mutant of FileBig: a file of exactly the threshold size passes
FileBigOrEqual(fs, path) == path \in DOMAIN fs /\ fs[path] >= MIN_SIZE

\* filepath.exists() and filepath.stat().st_size > 1000
FileBig(fs, path) == path \in DOMAIN fs /\ fs[path] > MIN_SIZE

WriteFile(fs, path, size) ==
    [p \in DOMAIN fs \cup {path} |-> IF p = path THEN size ELSE fs[p]]

Unlink(fs, path) == [p \in DOMAIN fs \ {path} |-> fs[p]]

NoFiles == [p \in {} |-> 0]

---------------------------------------------------------------------------
\* Catalog entries and the catalogs the rendering engine may show

Entry(title, date, url) ==
    [title |-> title, detail_url |-> "", download_url |-> url, date |-> date,
     center |-> "", topic |-> "", status |-> "", comment |-> ""]

Date1 == <<"1", "/", "2", "/", "2", "0", "2", "0">>
Date2 == <<"3", "/", "4", "/", "2", "0", "2", "1">>
Url1 == <<"/", "u", "1">>
Url2 == <<"/", "u", "2">>

eA == Entry(<<"A">>, Date1, Url1)
eA2 == Entry(<<"A">>, Date2, Url2)
eB == Entry(<<"B", " ", "b">>, Date1, Url2)
eC == Entry(<<"C", "/", "c">>, <<>>, Url1)
eN == Entry(<<"N">>, <<>>, <<>>)

\* A catalogue whose table is drawn with one row more than ITEMS_PER_PAGE: the
\* first page holds ITEMS_PER_PAGE entries without a document and a last one
\* with a document, the second page one entry
WideCatalog ==
    << [i \in 1..ITEMS_PER_PAGE |-> Entry(<<"N">> \o Decimal(i), <<>>, <<>>)] \o <<eA>>,
       <<eA2>> >>

\* Catalog(s)[p]: the entries collect_table_rows_fast extracts from page p
Catalog(s) ==
    CASE s = 1 -> << <<eA, eB>>, <<eA, eC>>, <<eN>> >>
      [] s = 2 -> << <<eA, eA2>>, <<eN, eB>> >>
      [] s = 3 -> << <<eA, eA, eB>>, <<>>, <<eC>> >>
      [] OTHER -> WideCatalog

Sites == 1..3
LastPage(s) == Len(Catalog(s))

\* Output directories left by an earlier run
FilesBefore ==
    {NoFiles,
     WriteFile(NoFiles, Filename(1, eA.title), MIN_SIZE + 1),
     WriteFile(NoFiles, Filename(1, eA.title), MIN_SIZE)}

---------------------------------------------------------------------------
\* Transport: what one session.get(...) and the streaming of its body can do.
\*   status 0      the request raised before any response arrived
\*   body          bytes written to the target file when the status is accepted
\*   aborted       streaming raised after body bytes were written

StatusCodes == {200, 302, 204, 404, 500}
BodySizes == {MIN_SIZE, MIN_SIZE + 1}

Responses ==
    {[status |-> 0, body |-> 0, aborted |-> TRUE]}
    \cup [status : StatusCodes, body : BodySizes, aborted : BOOLEAN]

ZeroResults == [downloaded |-> 0, skipped |-> 0, failed |-> 0]
NoResult == [success |-> FALSE, message |-> "none"]

---------------------------------------------------------------------------
\* The per-task download procedure.  One step is one pass of the retry loop:
\* the request, the streaming of the body, the size check and the handlers.
\* A step yields the directory after it, whether the procedure returned, what
\* it returned, whether the pass ended in the undersized-write branch, and
\* whether a final existence/size check was made.

StepOut(fs, done, success, message, short, final) ==
    [fs |-> fs, done |-> done,
     result |-> [success |-> success, message |-> message],
     short |-> short, final |-> final]

KeepTrying(fs, short) == StepOut(fs, FALSE, FALSE, "none", short, FALSE)

\* Mutant of FinalCheck: failure is declared without looking at the file
FinalCheckSkipped(fs, path, reason, short) ==
    [fs |-> fs, done |-> TRUE, result |-> [success |-> FALSE, message |-> reason],
     short |-> short, final |-> FALSE]

\* if filepath.exists() and filepath.stat().st_size > 1000: return (True, filename)
\* return (False, reason)
FinalCheck(fs, path, reason, short) ==
    IF FileBig(fs, path)
    THEN StepOut(fs, TRUE, TRUE, "filename", short, TRUE)
    ELSE StepOut(fs, TRUE, FALSE, reason, short, TRUE)

BULK_LAST == 2

\* if r.status_code in [200, 301, 302]
Accepted(status) == status \in {200, 301, 302}

\* Mutant of MorePasses: the loop has no cap
MorePassesAlways(attempt) == TRUE

\* "for attempt in range(3)": whether another pass follows pass number attempt
MorePasses(attempt) == attempt + 1 < BULK_ATTEMPTS

\* download_file_with_session, body of "for attempt in range(3)"
BulkStep(fs, path, attempt, r) ==
    LET accepted == Accepted(r.status)
        httpError == ~accepted /\ r.status >= 400
        raised == r.status = 0 \/ (accepted /\ r.aborted) \/ httpError
        fs1 == IF accepted THEN WriteFile(fs, path, r.body) ELSE fs
        short == accepted /\ ~r.aborted /\ ~FileBig(fs1, path)
        fs2 == IF short THEN Unlink(fs1, path) ELSE fs1
    IN  IF accepted /\ ~r.aborted /\ FileBig(fs1, path)
        THEN StepOut(fs1, TRUE, TRUE, "filename", FALSE, FALSE)
        ELSE IF raised
             THEN IF attempt < BULK_LAST
                  THEN KeepTrying(fs1, FALSE)
                  ELSE FinalCheck(fs1, path, IF httpError THEN "HTTP" ELSE "exception", FALSE)
             ELSE IF MorePasses(attempt)
                  THEN KeepTrying(fs2, short)
                  ELSE FinalCheck(fs2, path, "Failed", short)

\* Whether pass number attempt of download_file_with_session ends in
\* random_delay(0.5, 1): only the two except clauses call it, and only when
\* another pass follows
Backoff(attempt, r) ==
    LET accepted == Accepted(r.status)
        httpError == ~accepted /\ r.status >= 400
        raised == r.status = 0 \/ (accepted /\ r.aborted) \/ httpError
    IN  raised /\ attempt < BULK_LAST

\* Mutant of Terminal: a 404 is retried like any other status
TerminalNever(status) == FALSE

\* elif r.status_code == 404: return (False, ...)
Terminal(status) == status = 404

\* download_file of fda_retry_failed.py, body of "for attempt in range(2)"
RetryStep(fs, path, attempt, r) ==
    LET ok == r.status = 200
        fs1 == IF ok THEN WriteFile(fs, path, r.body) ELSE fs
        raised == r.status = 0 \/ (ok /\ r.aborted)
        short == ok /\ ~r.aborted /\ ~FileBig(fs1, path)
        fs2 == IF short THEN Unlink(fs1, path) ELSE fs1
    IN  IF ok /\ ~r.aborted /\ FileBig(fs1, path)
        THEN StepOut(fs1, TRUE, TRUE, "filename", FALSE, FALSE)
        ELSE IF raised
             THEN IF attempt = 0
                  THEN KeepTrying(fs1, FALSE)
                  ELSE StepOut(fs1, TRUE, FALSE, "exception", FALSE, FALSE)
             ELSE IF short
                  THEN IF attempt + 1 < RETRY_ATTEMPTS
                       THEN KeepTrying(fs2, TRUE)
                       ELSE StepOut(fs2, TRUE, FALSE, "Failed", TRUE, FALSE)
                  ELSE IF Terminal(r.status)
                       THEN StepOut(fs1, TRUE, FALSE, "404", FALSE, FALSE)
                       ELSE IF attempt = 0
                            THEN KeepTrying(fs1, FALSE)
                            ELSE StepOut(fs1, TRUE, FALSE, "HTTP", FALSE, FALSE)

\* A future of the pool / a call of the download procedure
Task(idx, entry, pos) ==
    [idx |-> idx, entry |-> entry, pos |-> pos,
     path |-> Filename(idx, entry.title),
     state |-> "queued", attempt |-> 0, result |-> NoResult,
     fetches |-> 0, short_write |-> FALSE, final_checks |-> 0,
     size_at_return |-> -1, collected |-> FALSE]

SizeOf(fs, path) == IF path \in DOMAIN fs THEN fs[path] ELSE -1

\* Mutant of Precheck: the file already present is not looked for
PrecheckNoExists(t, fs) ==
    IF t.entry.download_url = <<>>
    THEN [t EXCEPT !.state = "finished",
                   !.result = [success |-> FALSE, message |-> "No URL"],
                   !.size_at_return = IF t.path \in DOMAIN fs THEN fs[t.path] ELSE -1]
    ELSE [t EXCEPT !.state = "running"]

\* The checks before the retry loop: no URL, file already present
Precheck(t, fs) ==
    IF t.entry.download_url = <<>>
    THEN [t EXCEPT !.state = "finished",
                   !.result = [success |-> FALSE, message |-> "No URL"],
                   !.size_at_return = SizeOf(fs, t.path)]
    ELSE IF FileBig(fs, t.path)
         THEN [t EXCEPT !.state = "finished",
                        !.result = [success |-> TRUE, message |-> "Exists"],
                        !.size_at_return = SizeOf(fs, t.path)]
         ELSE [t EXCEPT !.state = "running"]

\* The task after one pass of the retry loop whose outcome is o
AfterStep(t, o) ==
    [t EXCEPT !.state = IF o.done THEN "finished" ELSE "running",
              !.attempt = IF o.done THEN t.attempt ELSE t.attempt + 1,
              !.result = o.result,
              !.fetches = t.fetches + 1,
              !.short_write = o.short,
              !.final_checks = t.final_checks + (IF o.final THEN 1 ELSE 0),
              !.size_at_return = IF o.done THEN SizeOf(o.fs, t.path) ELSE -1]

InFlight(t) == t.state \in {"queued", "running"}

---------------------------------------------------------------------------
\* fda_optimized.py: main()

\* The snapshot file does not exist (a file is a sequence of lines, a line a
\* sequence of cells)
NoCsv == << <<"absent">> >>
NotExtracted == <<"none">>

\* The variables of the reconciliation workflow and of the functions under
\* test, in the programs that do not use them
InitRetryVars ==
    /\ existing_titles = {} /\ missing_entries = <<>> /\ item_i = 0
    /\ refreshed_at = <<>> /\ fetched = <<>> /\ server = "any"
InitPureVars == input = <<>> /\ output = <<>>

\* fieldnames of the snapshot
Fieldnames ==
    <<"index", "title", "detail_url", "download_url", "date", "center", "topic",
      "status", "comment">>

\* {"index": idx, **entry}
RowDict(idx, entry) == entry @@ [index |-> Decimal(idx)]

\* writer.writerow(d): the values of d in the order of the fieldnames
WriteRow(d) == [k \in 1..Len(Fieldnames) |-> d[Fieldnames[k]]]

\* Mutant of OpenForWrite: the file is opened for appending
OpenForAppend(content) == IF content = NoCsv THEN <<>> ELSE content

\* open(csv_path, "w"): whatever the file held is gone
OpenForWrite(content) == <<>>

\* enumerate(entries, start=1)
RowIndex(i) == i

\* save_to_csv(entries, csv_path), on a file that holds content: the lines of
\* the file afterwards
save_to_csv(entries, content) ==
    OpenForWrite(content) \o <<Fieldnames>>
        \o [i \in 1..Len(entries) |-> WriteRow(RowDict(RowIndex(i), entries[i]))]

\* Mutant of SaveDue: no checkpoint is written inside the page loop
SaveDueNever(page) == FALSE

\* if page_num % 10 == 0
SaveDue(page) == page % SAVE_EVERY = 0

\* Mutant of IsNew: the seen set is never consulted
IsNewAlways(key, seen) == TRUE

\* key not in seen_titles
IsNew(key, seen) == key \notin seen

\* Mutant of Collect: the entry is put in front of the collection
CollectInFront(collection, entry) == <<entry>> \o collection

\* all_entries.append(entry)
Collect(collection, entry) == Append(collection, entry)

\* The loop "for entry in entries" of main(): the collection, the seen set, the
\* new entries of the page and their positions on the page
RECURSIVE Filter(_, _, _)
Filter(entries, i, acc) ==
    IF i > Len(entries) THEN acc
    ELSE LET e == entries[i]
             key == DedupeKey(e)
         IN  IF IsNew(key, acc.seen)
             THEN Filter(entries, i + 1,
                         [all |-> Collect(acc.all, e), seen |-> acc.seen \cup {key},
                          new |-> Append(acc.new, e), pos |-> Append(acc.pos, i)])
             ELSE Filter(entries, i + 1, acc)

\* idx = start_index + i, with start_idx = (page_num - 1) * ITEMS_PER_PAGE + 1
StartIdx(page) == (page - 1) * ITEMS_PER_PAGE + 1
\* Mutant of TaskIndex: every task of the batch gets the start index
TaskIndexStart(start_index, i) == start_index

TaskIndex(start_index, i) == start_index + i

\* Command lines tried: short ranges from the first pages, and ranges that
\* cross the first page whose number is a multiple of SAVE_EVERY
ArgValues ==
    [start : 0..2, end : 0..MaxEndPage, no_download : BOOLEAN]
    \cup [start : {SAVE_EVERY - 1}, end : {SAVE_EVERY, SAVE_EVERY + 1},
          no_download : {TRUE}]

InitWorkflow ==
    /\ pc = "start"
    /\ start_page = 0 /\ end_page = 0 /\ page_num = 0
    /\ view = 0 /\ driver = "none" /\ nav_i = 0 /\ nav_ok = TRUE
    /\ all_entries = <<>> /\ seen_titles = {} /\ new_entries = <<>> /\ new_pos = <<>>
    /\ sub_i = 0 /\ results = ZeroResults
    /\ totals = ZeroResults /\ csv = NoCsv /\ batch_log = <<>>
    /\ run = 1 /\ first_run = <<>>
    /\ total_pages = 0 /\ all_pub_entries = <<>> /\ seen_detail_urls = {}
    /\ who_view = 0 /\ fetch_log = <<>>
    /\ rows = <<>> /\ extracted = NotExtracted /\ method_log = <<>>
    /\ interrupted = FALSE /\ cadence_n = -1 /\ page_log = <<>> /\ saved_n = -1
    /\ submitted = <<>> /\ assigned = <<>> /\ waited = FALSE /\ InitPureVars

InitCommon == InitWorkflow /\ InitRetryVars

InitFda ==
    /\ prog = "fda_optimized"
    /\ args \in ArgValues
    /\ site \in Sites
    /\ files \in FilesBefore
    /\ tasks = <<>>
    /\ InitCommon

\* What the initial load can do: the table is ready, wait_for_table times out
\* ("return"), or a call on the driver raises before the page loop (driver.get,
\* wait_for_table on anything but a timeout, driver.get_cookies)
LoadOutcomes == {"ready", "timeout", "fault"}

\* Argument validation, setup_stealth_driver, driver.get(BASE_URL), wait_for_table
FdaStart ==
    /\ prog = "fda_optimized" /\ pc = "start"
    /\ start_page' = Max(1, args.start)
    /\ end_page' = Min(TOTAL_PAGES, args.end)
    /\ IF start_page' > end_page'
       THEN pc' = "done" /\ UNCHANGED <<driver, view, page_num, waited>>
       ELSE \E loaded \in LoadOutcomes :
              /\ view' = 1
              /\ page_num' = start_page'
              /\ waited' = TRUE
              /\ IF loaded = "ready"
                 THEN /\ driver' = "running"
                      /\ pc' = IF start_page' > 1 THEN "navigate" ELSE "page"
                 ELSE driver' = "quit" /\ pc' = "done"
    /\ UNCHANGED <<rows, extracted, saved_n, method_log, interrupted, cadence_n, page_log,
                   prog, args, site, nav_i, nav_ok, all_entries, seen_titles,
                   new_entries, new_pos, sub_i, results, tasks, files, totals, csv,
                   batch_log, run, first_run, total_pages, all_pub_entries,
                   seen_detail_urls, who_view, fetch_log,
                   submitted, assigned, retryVars, pureVars>>

\* What one activation of the next-page control can leave on screen: the next
\* page, or the same page when the table has not been redrawn in time
AfterNext(v) == {v, v + 1}
NextEnabled(s, v) == v < LastPage(s)

\* The callers of navigate_sequential_fast, and where each one continues when
\* it returns
SequentialCallers == {"fda_optimized", "navigate_to_page_direct"}
AfterSequential(caller) == IF caller = "fda_optimized" THEN "page" ELSE "done"

\* wait_for_table(driver) follows a successful navigate_sequential_fast in
\* main() only, and its result is discarded
WaitsAfterJump(caller) == caller = "fda_optimized"

\* Mutant of ClicksDone: the loop makes one pass more
ClicksDoneLate(i, target_page) == i = target_page

\* for i in range(target_page - 1): the loop is over after target_page - 1 passes
ClicksDone(i, target_page) == i = target_page - 1

\* navigate_sequential_fast(driver, start_page): one pass of its click loop.
\* The first-page control is disabled on the freshly loaded page 1.
FdaNavigate ==
    /\ prog \in SequentialCallers /\ pc = "navigate"
    /\ IF ClicksDone(nav_i, start_page)
       THEN /\ pc' = AfterSequential(prog) /\ nav_ok' = TRUE
            /\ waited' = WaitsAfterJump(prog)
            /\ UNCHANGED <<view, nav_i>>
       ELSE IF NextEnabled(site, view)
            THEN /\ view' \in AfterNext(view)
                 /\ nav_i' = nav_i + 1
                 /\ waited' = FALSE
                 /\ UNCHANGED <<pc, nav_ok>>
            ELSE /\ pc' = AfterSequential(prog) /\ nav_ok' = FALSE
                 /\ UNCHANGED <<view, nav_i, waited>>
    /\ UNCHANGED <<rows, extracted, saved_n, method_log, interrupted, cadence_n, page_log,
                   prog, args, start_page, end_page, page_num, site, driver,
                   all_entries, seen_titles, new_entries, new_pos, sub_i, results,
                   tasks, files, totals, csv, batch_log, run, first_run,
                   total_pages, all_pub_entries, seen_detail_urls, who_view, fetch_log,
                   submitted, assigned, retryVars, pureVars>>

---------------------------------------------------------------------------
\* fda_optimized.py: navigate_to_page_direct(driver, page_num), called with
\* page_num = start_page on a table that shows page view

MaxTarget == 3       \* largest page navigate_to_page_direct is asked for

\* What a lookup of a pagination control and its activation can do
Controls == {"absent", "raises", "works"}

InitDirect ==
    /\ prog = "navigate_to_page_direct"
    /\ args = [start |-> 0, end |-> 0, no_download |-> TRUE]
    /\ site \in Sites
    /\ files = NoFiles
    /\ tasks = <<>>
    /\ pc = "method1"
    /\ start_page \in 1..MaxTarget /\ end_page = 0 /\ page_num = 0
    /\ view \in 1..LastPage(site)
    /\ driver = "running" /\ nav_i = 0 /\ nav_ok = FALSE
    /\ all_entries = <<>> /\ seen_titles = {} /\ new_entries = <<>> /\ new_pos = <<>>
    /\ sub_i = 0 /\ results = ZeroResults
    /\ totals = ZeroResults /\ csv = NoCsv /\ batch_log = <<>>
    /\ run = 1 /\ first_run = <<>>
    /\ total_pages = 0 /\ all_pub_entries = <<>> /\ seen_detail_urls = {}
    /\ who_view = 0 /\ fetch_log = <<>>
    /\ rows = <<>> /\ extracted = NotExtracted /\ method_log = <<>>
    /\ interrupted = FALSE /\ cadence_n = -1 /\ page_log = <<>> /\ saved_n = -1
    /\ submitted = <<>> /\ assigned = <<>> /\ waited = FALSE /\ InitRetryVars /\ InitPureVars

\* Mutant of Fallthrough: the next strategy is tried whatever the outcome
FallthroughAlways(outcome, next) == next

\* "if page_input: ...; return True" inside "try: ... except: pass": the function
\* returns when the control was found and activated, and goes on otherwise
Fallthrough(outcome, next) == IF outcome = "works" THEN "done" ELSE next

\* The table after a direct jump to page target: the page asked for, or the
\* same page when the control did not drive the table
AfterJump(s, v, target) == {v, Min(target, LastPage(s))}

DirectFrame ==
    UNCHANGED <<rows, extracted, saved_n, interrupted, cadence_n, page_log,
                prog, args, start_page, end_page, page_num, site, driver, nav_i,
                all_entries, seen_titles, new_entries, new_pos, sub_i, results,
                tasks, files, totals, csv, batch_log, run, first_run, total_pages,
                all_pub_entries, seen_detail_urls, who_view, fetch_log,
                submitted, assigned, waited, retryVars, pureVars>>

\* Method 1: the page-number input
DirectInput ==
    /\ prog = "navigate_to_page_direct" /\ pc = "method1"
    /\ \E outcome \in Controls :
         /\ method_log' = Append(method_log, [method |-> "input", outcome |-> outcome])
         /\ pc' = Fallthrough(outcome, "method2")
         /\ nav_ok' = (outcome = "works")
         /\ view' \in (IF outcome = "works" THEN AfterJump(site, view, start_page)
                                             ELSE {view})
    /\ DirectFrame

\* Method 2: the page-index link
DirectClick ==
    /\ prog = "navigate_to_page_direct" /\ pc = "method2"
    /\ \E outcome \in Controls :
         /\ method_log' = Append(method_log, [method |-> "click", outcome |-> outcome])
         /\ pc' = Fallthrough(outcome, "method3")
         /\ nav_ok' = (outcome = "works")
         /\ view' \in (IF outcome = "works" THEN AfterJump(site, view, start_page)
                                             ELSE {view})
    /\ DirectFrame

\* Method 3: the call of navigate_sequential_fast, up to its click loop: the
\* first-page control, when enabled, is activated
DirectSequential ==
    /\ prog = "navigate_to_page_direct" /\ pc = "method3"
    /\ method_log' = Append(method_log, [method |-> "sequential", outcome |-> "invoked"])
    /\ view' \in {1, view}
    /\ pc' = "navigate"
    /\ UNCHANGED nav_ok
    /\ DirectFrame

\* Mutant of NewList: the list of the previous page is carried over
CarriedList(previous) == previous

\* new_entries = [] at the top of each page
NewList(previous) == <<>>

\* One pass of "for page_num in range(start_page, end_page + 1)" up to the
\* download call: click_next_fast, collect_table_rows_fast, the filter loop
FdaPage ==
    /\ prog = "fda_optimized" /\ pc = "page"
    /\ IF page_num > start_page /\ ~NextEnabled(site, view)
       THEN /\ pc' = "final_save"
            /\ UNCHANGED <<view, all_entries, seen_titles, new_entries, new_pos,
                           sub_i, results, page_log, waited>>
       ELSE /\ view' \in (IF page_num > start_page THEN AfterNext(view) ELSE {view})
            /\ LET f == Filter(Catalog(site)[view'], 1,
                               [all |-> all_entries, seen |-> seen_titles,
                                new |-> NewList(new_entries),
                                pos |-> NewList(new_pos)])
               IN  /\ all_entries' = f.all
                   /\ seen_titles' = f.seen
                   /\ new_entries' = f.new
                   /\ new_pos' = f.pos
                   /\ pc' = IF ~args.no_download /\ f.new # <<>>
                            THEN "submit" ELSE "page_end"
            /\ page_log' = Append(page_log, Catalog(site)[view'])
            /\ waited' = (page_num = start_page /\ waited)
            /\ sub_i' = 0
            /\ results' = ZeroResults
    /\ UNCHANGED <<rows, extracted, saved_n, method_log, interrupted, cadence_n,
                   prog, args, start_page, end_page, page_num, site, driver, nav_i,
                   nav_ok, tasks, files, totals, csv, batch_log, run, first_run,
                   total_pages, all_pub_entries, seen_detail_urls, who_view, fetch_log,
                   submitted, assigned, retryVars, pureVars>>

\* Mutant of MorePages: the loop ends after its first pass
MorePagesNever(page, last) == FALSE

\* for page_num in range(start_page, end_page + 1)
MorePages(page, last) == page < last

\* The checkpoint cadence and the step to the next page
FdaPageEnd ==
    /\ prog = "fda_optimized" /\ pc = "page_end"
    /\ csv' = IF SaveDue(page_num) THEN save_to_csv(all_entries, csv) ELSE csv
    /\ saved_n' = IF SaveDue(page_num) THEN Len(all_entries) ELSE saved_n
    /\ cadence_n' = IF page_num % SAVE_EVERY = 0 THEN Len(all_entries) ELSE cadence_n
    /\ IF MorePages(page_num, end_page)
       THEN page_num' = page_num + 1 /\ pc' = "page"
       ELSE pc' = "final_save" /\ UNCHANGED page_num
    /\ UNCHANGED <<rows, extracted, method_log, interrupted, page_log,
                   prog, args, start_page, end_page, site, view, driver, nav_i,
                   nav_ok, all_entries, seen_titles, new_entries, new_pos, sub_i,
                   results, tasks, files, totals, batch_log, run, first_run,
                   total_pages, all_pub_entries, seen_detail_urls, who_view, fetch_log,
                   submitted, assigned, waited, retryVars, pureVars>>

\* The final save and, in the finally clause, driver.quit()
FdaFinish ==
    /\ prog = "fda_optimized" /\ pc = "final_save"
    /\ csv' = save_to_csv(all_entries, csv)
    /\ saved_n' = Len(all_entries)
    /\ driver' = "quit"
    /\ pc' = "done"
    /\ UNCHANGED <<rows, extracted, method_log, interrupted, cadence_n, page_log,
                   prog, args, start_page, end_page, page_num, site, view, nav_i,
                   nav_ok, all_entries, seen_titles, new_entries, new_pos, sub_i,
                   results, tasks, files, totals, batch_log, run, first_run,
                   total_pages, all_pub_entries, seen_detail_urls, who_view, fetch_log,
                   submitted, assigned, waited, retryVars, pureVars>>

\* Where the control thread can be when a KeyboardInterrupt is delivered
\* inside the try block of main()
Interruptible == {"navigate", "page", "page_end", "final_save", "submit", "collect"}

\* The bare "except: pass" around the first-page control of
\* navigate_sequential_fast catches a KeyboardInterrupt raised inside it
Swallowing == pc = "navigate" /\ nav_i = 0

\* A KeyboardInterrupt is delivered to the control thread.  Raised inside
\* download_batch_parallel it leaves the "with ThreadPoolExecutor" block, whose
\* exit waits for every submitted task.
FdaInterrupt ==
    /\ prog = "fda_optimized" /\ driver = "running"
    /\ pc \in Interruptible
    /\ interrupted' = TRUE
    /\ \E swallowed \in BOOLEAN :
         /\ swallowed => Swallowing
         /\ pc' = IF swallowed THEN pc
                  ELSE IF pc \in {"submit", "collect"} THEN "unwinding"
                  ELSE "interrupted"
    /\ UNCHANGED <<rows, extracted, saved_n, method_log, cadence_n, page_log,
                   prog, args, start_page, end_page, page_num, site, view, driver,
                   nav_i, nav_ok, all_entries, seen_titles, new_entries, new_pos,
                   sub_i, results, tasks, files, totals, csv, batch_log, run,
                   first_run, total_pages, all_pub_entries, seen_detail_urls,
                   who_view, fetch_log,
                   submitted, assigned, waited, retryVars, pureVars>>

\* "except KeyboardInterrupt: save_to_csv(all_entries, csv_path)" and, in the
\* finally clause, driver.quit()
FdaInterrupted ==
    /\ prog = "fda_optimized" /\ pc \in {"interrupted", "unwinding"}
    /\ \A k \in 1..Len(tasks) : ~InFlight(tasks[k])
    /\ csv' = save_to_csv(all_entries, csv)
    /\ saved_n' = Len(all_entries)
    /\ driver' = "quit"
    /\ tasks' = <<>>
    /\ pc' = "done"
    /\ UNCHANGED <<rows, extracted, method_log, interrupted, cadence_n, page_log,
                   prog, args, start_page, end_page, page_num, site, view, nav_i,
                   nav_ok, all_entries, seen_titles, new_entries, new_pos, sub_i,
                   results, files, totals, batch_log, run, first_run, total_pages,
                   all_pub_entries, seen_detail_urls, who_view, fetch_log,
                   submitted, assigned, waited, retryVars, pureVars>>

---------------------------------------------------------------------------
\* fda_optimized.py: download_batch_parallel and its worker pool

\* Mutant of HasUrl: a task is submitted for every entry
HasUrlAlways(entry) == TRUE

\* if entry.get("download_url")
HasUrl(entry) == entry.download_url # <<>>

\* One pass of the submit loop
BatchSubmit ==
    /\ prog = "fda_optimized" /\ pc = "submit"
    /\ LET entry == new_entries[sub_i + 1]
           idx == TaskIndex(StartIdx(page_num), sub_i)
       IN  IF HasUrl(entry)
           THEN /\ tasks' = Append(tasks, Task(idx, entry, new_pos[sub_i + 1]))
                /\ UNCHANGED results
           ELSE /\ results' = [results EXCEPT !.skipped = @ + 1]
                /\ UNCHANGED tasks
    /\ submitted' = Append(submitted, DedupeKey(new_entries[sub_i + 1]))
    /\ assigned' = Append(assigned,
                          [idx |-> TaskIndex(StartIdx(page_num), sub_i),
                           entry |-> new_entries[sub_i + 1]])
    /\ sub_i' = sub_i + 1
    /\ pc' = IF sub_i' < Len(new_entries) THEN "submit" ELSE "collect"
    /\ UNCHANGED <<rows, extracted, saved_n, method_log, interrupted, cadence_n, page_log,
                   prog, args, start_page, end_page, page_num, site, view, driver,
                   nav_i, nav_ok, all_entries, seen_titles, new_entries, new_pos,
                   files, totals, csv, batch_log, run, first_run, total_pages,
                   all_pub_entries, seen_detail_urls, who_view, fetch_log,
                   waited, retryVars, pureVars>>

Running == {k \in 1..Len(tasks) : tasks[k].state = "running"}

\* A pool thread takes a queued task and runs download_file_with_session up to
\* its retry loop
WorkerStart(k) ==
    /\ prog = "fda_optimized"
    /\ tasks[k].state = "queued"
    /\ Cardinality(Running) < MAX_DOWNLOAD_WORKERS
    /\ tasks' = [tasks EXCEPT ![k] = Precheck(@, files)]
    /\ UNCHANGED <<rows, extracted, saved_n, method_log, interrupted, cadence_n, page_log,
                   prog, pc, args, start_page, end_page, page_num, site, view,
                   driver, nav_i, nav_ok, all_entries, seen_titles, new_entries,
                   new_pos, sub_i, results, files, totals, csv, batch_log, run,
                   first_run, total_pages, all_pub_entries, seen_detail_urls, who_view, fetch_log,
                   submitted, assigned, waited, retryVars, pureVars>>

\* A pool thread takes a queued task and download_file_with_session raises
\* before its retry loop (filepath.exists() or stat() fails with an OSError):
\* nothing is written and no tuple is returned
WorkerRaise(k) ==
    /\ prog = "fda_optimized"
    /\ tasks[k].state = "queued" /\ tasks[k].entry.download_url # <<>>
    /\ Cardinality(Running) < MAX_DOWNLOAD_WORKERS
    /\ tasks' = [tasks EXCEPT ![k].state = "raised"]
    /\ UNCHANGED <<rows, extracted, saved_n, method_log, interrupted, cadence_n, page_log,
                   prog, pc, args, start_page, end_page, page_num, site, view,
                   driver, nav_i, nav_ok, all_entries, seen_titles, new_entries,
                   new_pos, sub_i, results, files, totals, csv, batch_log, run,
                   first_run, total_pages, all_pub_entries, seen_detail_urls, who_view, fetch_log,
                   submitted, assigned, waited, retryVars, pureVars>>

\* One pass of the retry loop of download_file_with_session
WorkerAttempt(k) ==
    /\ prog = "fda_optimized"
    /\ tasks[k].state = "running"
    /\ \E r \in Responses :
         LET o == BulkStep(files, tasks[k].path, tasks[k].attempt, r)
         IN  /\ files' = o.fs
             /\ tasks' = [tasks EXCEPT ![k] = AfterStep(@, o)]
    /\ UNCHANGED <<rows, extracted, saved_n, method_log, interrupted, cadence_n, page_log,
                   prog, pc, args, start_page, end_page, page_num, site, view,
                   driver, nav_i, nav_ok, all_entries, seen_titles, new_entries,
                   new_pos, sub_i, results, totals, csv, batch_log, run,
                   first_run, total_pages, all_pub_entries, seen_detail_urls, who_view, fetch_log,
                   submitted, assigned, waited, retryVars, pureVars>>

\* Mutant of Tally: a failed task is not counted
TallyNoFailed(res, result) ==
    IF result.success
    THEN IF result.message = "Exists"
         THEN [res EXCEPT !.skipped = @ + 1]
         ELSE [res EXCEPT !.downloaded = @ + 1]
    ELSE res

\* The body of "for future in as_completed(future_to_entry)"
Tally(res, result) ==
    IF result.success
    THEN IF result.message = "Exists"
         THEN [res EXCEPT !.skipped = @ + 1]
         ELSE [res EXCEPT !.downloaded = @ + 1]
    ELSE [res EXCEPT !.failed = @ + 1]

\* future.result() re-raises what the worker raised; the except clause of the
\* collection loop counts the task as failed
Raised(t) == t.state = "raised"

BatchCollect(k) ==
    /\ prog = "fda_optimized" /\ pc = "collect"
    /\ tasks[k].state \in {"finished", "raised"} /\ ~tasks[k].collected
    /\ results' = IF Raised(tasks[k])
                  THEN [results EXCEPT !.failed = @ + 1]
                  ELSE Tally(results, tasks[k].result)
    /\ tasks' = [tasks EXCEPT ![k].collected = TRUE]
    /\ UNCHANGED <<rows, extracted, saved_n, method_log, interrupted, cadence_n, page_log,
                   prog, pc, args, start_page, end_page, page_num, site, view,
                   driver, nav_i, nav_ok, all_entries, seen_titles, new_entries,
                   new_pos, sub_i, files, totals, csv, batch_log, run, first_run,
                   total_pages, all_pub_entries, seen_detail_urls, who_view, fetch_log,
                   submitted, assigned, waited, retryVars, pureVars>>

\* Mutant of BatchDone: the aggregate is returned without waiting
BatchDoneEarly == TRUE

\* as_completed has yielded every future and the executor has shut down
BatchDone == \A k \in 1..Len(tasks) : tasks[k].collected

\* total_downloaded += results["downloaded"], and so on
AddTotals(tot, res) ==
    [downloaded |-> tot.downloaded + res.downloaded,
     skipped |-> tot.skipped + res.skipped,
     failed |-> tot.failed + res.failed]

\* "return results" and the three additions of main()
Returned ==
    /\ prog = "fda_optimized" /\ pc = "collect"
    /\ BatchDone
    /\ totals' = AddTotals(totals, results)
    /\ batch_log' = Append(batch_log, [page |-> page_num, n |-> Len(new_entries),
                                       results |-> results])
    /\ tasks' = SelectSeq(tasks, InFlight)
    /\ pc' = "page_end"
    /\ UNCHANGED <<rows, extracted, saved_n, method_log, interrupted, cadence_n, page_log,
                   prog, args, start_page, end_page, page_num, site, view, driver,
                   nav_i, nav_ok, all_entries, seen_titles, new_entries, new_pos,
                   sub_i, results, files, csv, total_pages, all_pub_entries,
                   seen_detail_urls, who_view, fetch_log,
                   submitted, assigned, waited, retryVars, pureVars>>

BatchReturn == Returned /\ UNCHANGED <<run, first_run>>

---------------------------------------------------------------------------
\* fda_retry_failed.py: download_file(entry, output_dir, index, session)

RetryEntries == {eA, eC, eN}
RetryIndexes == {1, 2}

InitRetry ==
    /\ prog = "fda_retry_failed"
    /\ args = [start |-> 0, end |-> 0, no_download |-> FALSE]
    /\ site = 1
    /\ files \in FilesBefore
    /\ \E e \in RetryEntries, i \in RetryIndexes :
         /\ InitCommon
         /\ tasks = <<Task(i, e, 0)>>

\* The checks before the retry loop
RetryStart ==
    /\ prog = "fda_retry_failed" /\ pc = "start"
    /\ tasks' = [tasks EXCEPT ![1] = Precheck(@, files)]
    /\ pc' = IF tasks'[1].state = "finished" THEN "done" ELSE "download_file"
    /\ UNCHANGED <<rows, extracted, saved_n, method_log, interrupted, cadence_n, page_log,
                   prog, args, start_page, end_page, page_num, site, view, driver,
                   nav_i, nav_ok, all_entries, seen_titles, new_entries, new_pos,
                   sub_i, results, files, totals, csv, batch_log, run, first_run,
                   total_pages, all_pub_entries, seen_detail_urls, who_view,
                   fetch_log,
                   submitted, assigned, waited, retryVars, pureVars>>

\* One pass of "for attempt in range(2)"
RetryAttempt ==
    /\ prog = "fda_retry_failed" /\ pc = "download_file"
    /\ \E r \in Responses :
         LET o == RetryStep(files, tasks[1].path, tasks[1].attempt, r)
         IN  /\ files' = o.fs
             /\ tasks' = [tasks EXCEPT ![1] = AfterStep(@, o)]
             /\ fetch_log' = Append(fetch_log, r.status)
             /\ pc' = IF o.done THEN "done" ELSE "download_file"
    /\ UNCHANGED <<rows, extracted, saved_n, method_log, interrupted, cadence_n, page_log,
                   prog, args, start_page, end_page, page_num, site, view, driver,
                   nav_i, nav_ok, all_entries, seen_titles, new_entries, new_pos,
                   sub_i, results, totals, csv, batch_log, run, first_run,
                   total_pages, all_pub_entries, seen_detail_urls, who_view,
                   submitted, assigned, waited, retryVars, pureVars>>

---------------------------------------------------------------------------
\* fda_optimized.py: one call of download_file_with_session on its own, with
\* the log of its passes: the status each pass got and whether the pass ended
\* in the backoff delay

BulkEntries == {eA, eC}

InitBulkCall ==
    /\ prog = "download_file_with_session"
    /\ args = [start |-> 0, end |-> 0, no_download |-> FALSE]
    /\ site = 1
    /\ files \in FilesBefore
    /\ \E e \in BulkEntries, i \in RetryIndexes :
         /\ InitCommon
         /\ tasks = <<Task(i, e, 0)>>

\* The checks before the retry loop
BulkCallStart ==
    /\ prog = "download_file_with_session" /\ pc = "start"
    /\ tasks' = [tasks EXCEPT ![1] = Precheck(@, files)]
    /\ pc' = IF tasks'[1].state = "finished" THEN "done" ELSE "download_file"
    /\ UNCHANGED <<rows, extracted, saved_n, method_log, interrupted, cadence_n, page_log,
                   prog, args, start_page, end_page, page_num, site, view, driver,
                   nav_i, nav_ok, all_entries, seen_titles, new_entries, new_pos,
                   sub_i, results, files, totals, csv, batch_log, run, first_run,
                   total_pages, all_pub_entries, seen_detail_urls, who_view,
                   fetch_log,
                   submitted, assigned, waited, retryVars, pureVars>>

\* One pass of "for attempt in range(3)"
BulkCallAttempt ==
    /\ prog = "download_file_with_session" /\ pc = "download_file"
    /\ \E r \in Responses :
         LET o == BulkStep(files, tasks[1].path, tasks[1].attempt, r)
         IN  /\ files' = o.fs
             /\ tasks' = [tasks EXCEPT ![1] = AfterStep(@, o)]
             /\ fetch_log' = Append(fetch_log,
                                    [status |-> r.status,
                                     delay |-> Backoff(tasks[1].attempt, r)])
             /\ pc' = IF o.done THEN "done" ELSE "download_file"
    /\ UNCHANGED <<rows, extracted, saved_n, method_log, interrupted, cadence_n, page_log,
                   prog, args, start_page, end_page, page_num, site, view, driver,
                   nav_i, nav_ok, all_entries, seen_titles, new_entries, new_pos,
                   sub_i, results, totals, csv, batch_log, run, first_run,
                   total_pages, all_pub_entries, seen_detail_urls, who_view,
                   submitted, assigned, waited, retryVars, pureVars>>

---------------------------------------------------------------------------
\* who_selenium_scraper.py: the collection loop of main()

Pub(title, detail_url) == <<title, detail_url>>

\* WhoCatalog[p]: what collect_publication_cards returns on page p
WhoCatalog ==
    << <<Pub("T1", "u1"), Pub("T2", "u2")>>,
       <<Pub("T3", "u2"), Pub("T1", "u3")>>,
       <<Pub("T4", "u4"), Pub("T4", "u4")>> >>

WhoLastPage == Len(WhoCatalog)

\* detail_url not in seen_detail_urls
IsNewUrl(url, seen) == url \notin seen

\* The loop "for title, detail_url in pubs"
RECURSIVE FilterPubs(_, _, _)
FilterPubs(pubs, i, acc) ==
    IF i > Len(pubs) THEN acc
    ELSE IF IsNewUrl(pubs[i][2], acc.seen)
         THEN FilterPubs(pubs, i + 1,
                         [all |-> Append(acc.all, pubs[i]),
                          seen |-> acc.seen \cup {pubs[i][2]}])
         ELSE FilterPubs(pubs, i + 1, acc)

InitWho ==
    /\ prog = "who_selenium_scraper"
    /\ args = [start |-> 0, end |-> 0, no_download |-> FALSE]
    /\ site = 1
    /\ files = NoFiles
    /\ tasks = <<>>
    /\ InitCommon

\* driver.get(BASE_URL), wait_for_page_load, get_total_pages
WhoStart ==
    /\ prog = "who_selenium_scraper" /\ pc = "start"
    /\ total_pages' \in (1..MaxPubPages) \cup {WHO_DEFAULT_PAGES}
    /\ who_view' = 1
    /\ page_num' = 1
    /\ driver' = "running"
    /\ pc' = "who_page"
    /\ UNCHANGED <<rows, extracted, saved_n, method_log, interrupted, cadence_n, page_log,
                   prog, args, start_page, end_page, site, view, nav_i, nav_ok,
                   all_entries, seen_titles, new_entries, new_pos, sub_i, results,
                   tasks, files, totals, csv, batch_log, run, first_run,
                   all_pub_entries, seen_detail_urls, fetch_log,
                   submitted, assigned, waited, retryVars, pureVars>>

\* click_next_page_kendo, then use_page_input_kendo when it fails: the pages the
\* list may show afterwards, or {} when both report failure.  Either control
\* may be missing, and either reports success whether or not the list changed.
WhoAfterNavigation(v, target) ==
    {v, Min(v + 1, WhoLastPage), Min(target, WhoLastPage)}

\* One pass of "for page_num in range(1, total_pages + 1)"
WhoPage ==
    /\ prog = "who_selenium_scraper" /\ pc = "who_page"
    /\ \E navigated \in BOOLEAN :
         IF page_num > 1 /\ ~navigated
         THEN /\ pc' = "who_collected"
              /\ UNCHANGED <<who_view, page_num, all_pub_entries, seen_detail_urls>>
         ELSE /\ who_view' \in (IF page_num > 1
                                THEN WhoAfterNavigation(who_view, page_num)
                                ELSE {who_view})
              /\ \E pubs \in {WhoCatalog[who_view'], <<>>} :
                   LET f == FilterPubs(pubs, 1, [all |-> all_pub_entries,
                                                 seen |-> seen_detail_urls])
                   IN  /\ all_pub_entries' = f.all
                       /\ seen_detail_urls' = f.seen
              /\ IF page_num < total_pages
                 THEN page_num' = page_num + 1 /\ UNCHANGED pc
                 ELSE pc' = "who_collected" /\ UNCHANGED page_num
    /\ UNCHANGED <<rows, extracted, saved_n, method_log, interrupted, cadence_n, page_log,
                   prog, args, start_page, end_page, site, view, driver, nav_i,
                   nav_ok, all_entries, seen_titles, new_entries, new_pos, sub_i,
                   results, tasks, files, totals, csv, batch_log, run, first_run,
                   total_pages, fetch_log,
                   submitted, assigned, waited, retryVars, pureVars>>

---------------------------------------------------------------------------
\* The download phase of fda_optimized.py called twice over the same batch:
\* download_batch_parallel(session, new_entries, out_dir, start_idx) returns,
\* nothing is deleted, and the same call is made again.

ResumeBatches == {<<eA, eB>>, <<eA, eA2>>, <<eN, eC>>, <<eC>>}
ResumePages == {1, 2}

InitResume ==
    /\ prog = "fda_optimized"
    /\ pc = "submit"
    /\ args = [start |-> 1, end |-> MaxEndPage, no_download |-> FALSE]
    /\ start_page = 1 /\ end_page = MaxEndPage
    /\ page_num \in ResumePages
    /\ site = 1 /\ view = page_num /\ driver = "running" /\ nav_i = 0 /\ nav_ok = TRUE
    /\ new_entries \in ResumeBatches
    /\ all_entries = new_entries
    /\ seen_titles = {DedupeKey(new_entries[i]) : i \in 1..Len(new_entries)}
    /\ new_pos = [i \in 1..Len(new_entries) |-> i]
    /\ sub_i = 0 /\ results = ZeroResults /\ tasks = <<>>
    /\ files \in FilesBefore
    /\ totals = ZeroResults /\ csv = NoCsv /\ batch_log = <<>>
    /\ run = 1 /\ first_run = <<>>
    /\ total_pages = 0 /\ all_pub_entries = <<>> /\ seen_detail_urls = {}
    /\ who_view = 0 /\ fetch_log = <<>>
    /\ rows = <<>> /\ extracted = NotExtracted /\ method_log = <<>>
    /\ interrupted = FALSE /\ cadence_n = -1 /\ page_log = <<>> /\ saved_n = -1
    /\ submitted = <<>> /\ assigned = <<>> /\ waited = FALSE /\ InitRetryVars /\ InitPureVars

\* The call returns; the outcome of the first call is kept for comparison
ResumeReturn ==
    /\ Returned
    /\ first_run' = IF run = 1
                    THEN [k \in 1..Len(tasks) |-> tasks[k].result]
                    ELSE first_run
    /\ UNCHANGED run

\* The same call is made a second time
ResumeRerun ==
    /\ prog = "fda_optimized" /\ pc = "page_end" /\ run = 1
    /\ run' = 2
    /\ pc' = "submit"
    /\ sub_i' = 0
    /\ results' = ZeroResults
    /\ UNCHANGED <<rows, extracted, saved_n, method_log, interrupted, cadence_n, page_log,
                   prog, args, start_page, end_page, page_num, site, view, driver,
                   nav_i, nav_ok, all_entries, seen_titles, new_entries, new_pos,
                   tasks, files, totals, csv, batch_log, first_run, total_pages,
                   all_pub_entries, seen_detail_urls, who_view, fetch_log,
                   submitted, assigned, waited, retryVars, pureVars>>

NextResume ==
    \/ BatchSubmit
    \/ \E k \in 1..Len(tasks) : WorkerStart(k)
    \/ \E k \in 1..Len(tasks) : WorkerAttempt(k)
    \/ \E k \in 1..Len(tasks) : BatchCollect(k)
    \/ ResumeReturn
    \/ ResumeRerun

SpecResume == InitResume /\ [][NextResume]_vars

---------------------------------------------------------------------------
\* The field extractors: collect_table_rows_fast of fda_optimized.py and
\* collect_table_rows of fda_retry_failed.py, on the rows the driver renders.
\* An href is the sequence of the segments it is made of, a text a sequence of
\* characters.

MaxLinks == 2        \* most links in one rendered row
MaxRows == 3         \* most rows on one rendered page

\* needle in href
Contains(href, needle) == \E i \in 1..Len(href) : href[i] = needle

Link(href, text) == [href |-> href, text |-> text]

LinkKinds ==
    {Link(<<"fda.gov", "/media/", "1", "/download">>, <<"P", "D", "F">>),
     Link(<<"fda.gov", "/media/", "2", "/download">>, <<>>),
     Link(<<"fda.gov", "/regulatory-information/", "g1">>, <<"G">>),
     Link(<<"fda.gov", "/guidance/", "g2">>, <<" ", "H">>),
     Link(<<"fda.gov", "/guidance/", "g3">>, <<" ">>),
     Link(<<"fda.gov", "/about">>, <<"F">>),
     Link(<<"example.org">>, <<"X">>)}

CellDate == Date1
CellTitle == <<" ", "T", " ", "\n", "u">>
CellFinal == <<"F", "i", "n", "a", "l">>
CellNo == <<"N", "o">>

CellRows ==
    {<<>>,
     <<CellTitle>>,
     << <<>>, CellTitle>>,
     << <<>>, <<" ">> >>,
     <<CellDate, <<>>, CellFinal, CellNo>>,
     << <<>>, CellTitle, Date2, Date1, CellFinal>>}

SeqsUpTo(S, n) == UNION {[1..k -> S] : k \in 0..n}

\* A rendered row: its td cells, its links in document order, and whether
\* reading it raises (a row the table has redrawn meanwhile)
RowKinds == [cells : CellRows, links : SeqsUpTo(LinkKinds, MaxLinks), stale : BOOLEAN]

Row(cells, links) == [cells |-> cells, links |-> links, stale |-> FALSE]

SampleRows ==
    {Row(<< <<>>, CellTitle>>, <<>>),
     Row(<< <<>>, <<" ">> >>, <<>>),
     Row(<<CellTitle>>, << Link(<<"fda.gov", "/guidance/", "g2">>, <<" ", "H">>) >>),
     Row(<<CellDate, <<>>, CellFinal, CellNo>>,
         << Link(<<"fda.gov", "/regulatory-information/", "g1">>, <<"G">>),
            Link(<<"fda.gov", "/media/", "1", "/download">>, <<"P", "D", "F">>) >>)}

Pages ==
    {<<r>> : r \in RowKinds} \cup UNION {[1..k -> SampleRows] : k \in 2..MaxRows}

\* "/media/" in href and "/download" in href
IsDownload(href) == Contains(href, "/media/") /\ Contains(href, "/download")

\* "/guidance/" in href or "/regulatory-information/" in href
IsDetail(href) == Contains(href, "/guidance/") \/ Contains(href, "/regulatory-information/")

\* "fda.gov" in href
IsFda(href) == Contains(href, "fda.gov")

EmptyEntry ==
    [title |-> <<>>, detail_url |-> <<>>, download_url |-> <<>>, date |-> <<>>,
     center |-> <<>>, topic |-> <<>>, status |-> <<>>, comment |-> <<>>]

\* The loop "for link in all_links" of collect_table_rows_fast
RECURSIVE ScanLinks(_, _, _)
ScanLinks(links, i, entry) ==
    IF i > Len(links) THEN entry
    ELSE LET href == links[i].href
             text == Strip(links[i].text)
         IN  IF IsDownload(href)
             THEN ScanLinks(links, i + 1, [entry EXCEPT !.download_url = href])
             ELSE IF IsDetail(href)
                  THEN IF entry.title = <<>> /\ text # <<>>
                       THEN ScanLinks(links, i + 1,
                                      [entry EXCEPT !.title = text, !.detail_url = href])
                       ELSE ScanLinks(links, i + 1, entry)
                  ELSE IF IsFda(href) /\ text # <<>> /\ entry.title = <<>>
                       THEN ScanLinks(links, i + 1,
                                      [entry EXCEPT !.title = text, !.detail_url = href])
                       ELSE ScanLinks(links, i + 1, entry)

\* text.split('\n')[0]
RECURSIVE FirstLine(_)
FirstLine(s) ==
    IF s = <<>> \/ Head(s) = "\n" THEN <<>> ELSE <<Head(s)>> \o FirstLine(Tail(s))

DigitChars == {"0", "1", "2", "3", "4", "5", "6", "7", "8", "9"}

Digits(s, i, n) == i + n - 1 <= Len(s) /\ \A j \in i..(i + n - 1) : s[j] \in DigitChars

\* re.match(r'\d{1,2}/\d{1,2}/\d{4}', text)
IsDate(s) ==
    \E a \in 1..2, b \in 1..2 :
        /\ Digits(s, 1, a)
        /\ a + 1 <= Len(s) /\ s[a + 1] = "/"
        /\ Digits(s, a + 2, b)
        /\ a + b + 2 <= Len(s) /\ s[a + b + 2] = "/"
        /\ Digits(s, a + b + 3, 4)

StatusValues == {<<"F", "i", "n", "a", "l">>, <<"D", "r", "a", "f", "t">>}
CommentValues == {<<"Y", "e", "s">>, <<"N", "o">>}

\* The loop "for cell in cells"
RECURSIVE ScanCells(_, _, _)
ScanCells(cells, i, entry) ==
    IF i > Len(cells) THEN entry
    ELSE LET text == Strip(cells[i])
         IN  IF IsDate(text) /\ entry.date = <<>>
             THEN ScanCells(cells, i + 1, [entry EXCEPT !.date = text])
             ELSE IF text \in StatusValues /\ entry.status = <<>>
                  THEN ScanCells(cells, i + 1, [entry EXCEPT !.status = text])
                  ELSE IF text \in CommentValues /\ entry.comment = <<>>
                       THEN ScanCells(cells, i + 1, [entry EXCEPT !.comment = text])
                       ELSE ScanCells(cells, i + 1, entry)

\* Mutant of EnoughCells: a row is read however few cells it has
EnoughCellsAlways(cells) == TRUE

\* "if len(cells) < 2: continue"
EnoughCells(cells) == Len(cells) >= 2

\* The body of "for row in rows" of collect_table_rows_fast: the entries the
\* row adds to the list
ExtractRow(row) ==
    IF row.stale \/ ~EnoughCells(row.cells) THEN <<>>
    ELSE LET e1 == ScanLinks(row.links, 1, EmptyEntry)
             e2 == IF e1.title = <<>> /\ Len(row.cells) > 1
                   THEN [e1 EXCEPT !.title = FirstLine(Strip(row.cells[2]))]
                   ELSE e1
             e3 == ScanCells(row.cells, 1, e2)
         IN  IF e3.title # <<>> THEN <<e3>> ELSE <<>>

RECURSIVE collect_table_rows_fast(_)
collect_table_rows_fast(page) ==
    IF page = <<>> THEN <<>>
    ELSE ExtractRow(Head(page)) \o collect_table_rows_fast(Tail(page))

\* The loop "for link in all_links" of collect_table_rows
RECURSIVE ScanLinksRetry(_, _, _)
ScanLinksRetry(links, i, entry) ==
    IF i > Len(links) THEN entry
    ELSE LET href == links[i].href
             text == Strip(links[i].text)
         IN  IF IsDownload(href)
             THEN ScanLinksRetry(links, i + 1, [entry EXCEPT !.download_url = href])
             ELSE IF text # <<>> /\ entry.title = <<>>
                  THEN ScanLinksRetry(links, i + 1, [entry EXCEPT !.title = text])
                  ELSE ScanLinksRetry(links, i + 1, entry)

\* The body of "for row in rows" of collect_table_rows
ExtractRowRetry(row) ==
    IF row.stale THEN <<>>
    ELSE LET e == ScanLinksRetry(row.links, 1, [title |-> <<>>, download_url |-> <<>>])
         IN  IF e.title # <<>> /\ e.download_url # <<>> THEN <<e>> ELSE <<>>

RECURSIVE collect_table_rows(_)
collect_table_rows(page) ==
    IF page = <<>> THEN <<>>
    ELSE ExtractRowRetry(Head(page)) \o collect_table_rows(Tail(page))

Extractors == {"collect_table_rows_fast", "collect_table_rows"}

InitExtract ==
    /\ prog \in Extractors
    /\ args = [start |-> 0, end |-> 0, no_download |-> TRUE]
    /\ site = 1
    /\ files = NoFiles
    /\ tasks = <<>>
    /\ pc = "start"
    /\ start_page = 0 /\ end_page = 0 /\ page_num = 0
    /\ view = 0 /\ driver = "running" /\ nav_i = 0 /\ nav_ok = TRUE
    /\ all_entries = <<>> /\ seen_titles = {} /\ new_entries = <<>> /\ new_pos = <<>>
    /\ sub_i = 0 /\ results = ZeroResults
    /\ totals = ZeroResults /\ csv = NoCsv /\ batch_log = <<>>
    /\ run = 1 /\ first_run = <<>>
    /\ total_pages = 0 /\ all_pub_entries = <<>> /\ seen_detail_urls = {}
    /\ who_view = 0 /\ fetch_log = <<>>
    /\ rows \in Pages /\ extracted = NotExtracted /\ method_log = <<>>
    /\ interrupted = FALSE /\ cadence_n = -1 /\ page_log = <<>> /\ saved_n = -1
    /\ submitted = <<>> /\ assigned = <<>> /\ waited = FALSE /\ InitRetryVars /\ InitPureVars

ExtractFrame ==
    UNCHANGED <<rows, saved_n, method_log, interrupted, cadence_n, page_log,
                prog, args, start_page, end_page, page_num, site, view, driver,
                nav_i, nav_ok, all_entries, seen_titles, new_entries, new_pos,
                sub_i, results, tasks, files, totals, csv, batch_log, run,
                first_run, total_pages, all_pub_entries, seen_detail_urls,
                who_view, fetch_log,
                submitted, assigned, waited, retryVars, pureVars>>

\* entries = collect_table_rows_fast(driver)
Extract ==
    /\ prog = "collect_table_rows_fast" /\ pc = "start"
    /\ extracted' = collect_table_rows_fast(rows)
    /\ pc' = "done"
    /\ ExtractFrame

\* entries = collect_table_rows(driver)
ExtractRetry ==
    /\ prog = "collect_table_rows" /\ pc = "start"
    /\ extracted' = collect_table_rows(rows)
    /\ pc' = "done"
    /\ ExtractFrame

---------------------------------------------------------------------------
\* The functions on file names, each called once on an argument taken from a
\* bounded set: sanitize_filename, and scan_existing_files followed by
\* title_exists (fda_retry_failed.py)

MaxChars == 3        \* longest name built from Chars
PREFIX_DIGITS == 4
PREFIX_LEN == 5
SHORT_LEN == 50

Chars == {"a", "A", " ", "\t", "/", "1", "_"}

Pad(n) == [i \in 1..n |-> "a"]

\* Names around the truncation point of sanitize_filename
LongNames == {Pad(MAX_NAME - 1) \o s : s \in SeqsUpTo({"a", "A", " ", "/"}, MaxChars - 1)}

Names == SeqsUpTo(Chars, MaxChars) \cup LongNames

\* str.lower() on the letters of the model's titles
LowerChar(c) ==
    CASE c = "A" -> "a" [] c = "B" -> "b" [] c = "C" -> "c" [] c = "N" -> "n"
      [] OTHER -> c

Lower(s) == [i \in 1..Len(s) |-> LowerChar(s[i])]

StartsWith(s, prefix) ==
    Len(prefix) <= Len(s) /\ SubSeq(s, 1, Len(prefix)) = prefix

Pdf == <<".", "p", "d", "f">>

\* folder.glob("*.pdf")
IsPdf(name) == Len(name) >= Len(Pdf) /\ SubSeq(name, Len(name) - Len(Pdf) + 1, Len(name)) = Pdf

\* pdf.stem of a name that glob("*.pdf") matched
Stem(name) == IF Len(name) > Len(Pdf) THEN SubSeq(name, 1, Len(name) - Len(Pdf)) ELSE name

\* Mutant of HasIndexPrefix: the index prefix is never recognised
NoIndexPrefix(name) == FALSE

\* re.match(r'^\d{4}_', name)
HasIndexPrefix(name) ==
    /\ Digits(name, 1, PREFIX_DIGITS)
    /\ Len(name) >= PREFIX_LEN /\ name[PREFIX_LEN] = "_"

\* The body of "for pdf in folder.glob('*.pdf')"
ScannedTitle(filename) ==
    LET name == Stem(filename)
        bare == IF HasIndexPrefix(name) THEN SubSeq(name, PREFIX_LEN + 1, Len(name)) ELSE name
    IN  Strip(Lower(bare))

scan_existing_files(folder) == {ScannedTitle(f) : f \in {g \in folder : IsPdf(g)}}

title_exists(title, existing) ==
    LET sanitized == Strip(Lower(sanitize_filename(title)))
        sanitized_short == SubSeq(sanitized, 1, Min(Len(sanitized), SHORT_LEN))
    IN  \/ sanitized \in existing
        \/ \E e \in existing :
              \/ StartsWith(e, sanitized_short)
              \/ StartsWith(sanitized_short, SubSeq(e, 1, Min(Len(e), SHORT_LEN)))

\* Titles tried by the title_exists harness: short ones, ones around the
\* truncation point, one longer than the partial-match prefix, one that itself
\* begins like an index prefix
TitleSamples ==
    SeqsUpTo(Chars, MaxChars - 1)
      \cup {Pad(MAX_NAME - 1) \o s : s \in SeqsUpTo({"A", " "}, MaxChars - 1)}
      \cup {Pad(SHORT_LEN + 1), <<"1", "1", "1", "1", "_", "A">>}

\* Indexes the downloaders assign: the first entry of the first two pages and
\* the last entry of the last page
Indexes == {1, StartIdx(2), StartIdx(TOTAL_PAGES) + ITEMS_PER_PAGE - 1}

\* What else the output directory holds
OtherFiles ==
    {{}, {<<"n", "o", "t", "e", "s", ".", "t", "x", "t">>},
     {Filename(1, <<"B">>)}, {Filename(1, <<"a">>)}}

PureFunctions == {"sanitize_filename", "title_exists"}

\* The variables of the workflows, in the harnesses that do not use them
InitIdle ==
    /\ args = [start |-> 0, end |-> 0, no_download |-> TRUE]
    /\ site = 1
    /\ files = NoFiles
    /\ tasks = <<>>
    /\ start_page = 0 /\ end_page = 0 /\ page_num = 0
    /\ view = 0 /\ driver = "running" /\ nav_i = 0 /\ nav_ok = TRUE
    /\ all_entries = <<>> /\ seen_titles = {} /\ new_entries = <<>> /\ new_pos = <<>>
    /\ sub_i = 0 /\ results = ZeroResults
    /\ totals = ZeroResults /\ csv = NoCsv /\ batch_log = <<>>
    /\ run = 1 /\ first_run = <<>>
    /\ total_pages = 0 /\ all_pub_entries = <<>> /\ seen_detail_urls = {}
    /\ who_view = 0 /\ fetch_log = <<>>
    /\ rows = <<>> /\ extracted = NotExtracted /\ method_log = <<>>
    /\ interrupted = FALSE /\ cadence_n = -1 /\ page_log = <<>> /\ saved_n = -1
    /\ submitted = <<>> /\ assigned = <<>> /\ waited = FALSE

InitSanitize ==
    /\ prog = "sanitize_filename" /\ pc = "start"
    /\ input \in Names /\ output = <<>>
    /\ InitIdle /\ InitRetryVars

\* The directory holds the other files and, or not, the file the downloader
\* writes for the title under the index
InitTitleExists ==
    /\ prog = "title_exists" /\ pc = "start"
    /\ \E title \in TitleSamples, index \in Indexes, others \in OtherFiles,
          present \in BOOLEAN :
          input = [title |-> title, index |-> index,
                   folder |-> others \cup (IF present THEN {Filename(index, title)} ELSE {})]
    /\ output = <<>>
    /\ InitIdle /\ InitRetryVars

PureFrame ==
    UNCHANGED <<rows, extracted, saved_n, method_log, interrupted, cadence_n, page_log,
                prog, args, start_page, end_page, page_num, site, view, driver,
                nav_i, nav_ok, all_entries, seen_titles, new_entries, new_pos,
                sub_i, results, tasks, files, totals, csv, batch_log, run,
                first_run, total_pages, all_pub_entries, seen_detail_urls,
                who_view, fetch_log, submitted, assigned, waited, retryVars, input>>

\* sanitize_filename(name)
Sanitize ==
    /\ prog = "sanitize_filename" /\ pc = "start"
    /\ output' = sanitize_filename(input)
    /\ pc' = "done"
    /\ PureFrame

\* existing_titles = scan_existing_files(out_dir), then
\* title_exists(entry["title"], existing_titles)
TitleExists ==
    /\ prog = "title_exists" /\ pc = "start"
    /\ LET existing == scan_existing_files(input.folder)
       IN  output' = [existing |-> existing, found |-> title_exists(input.title, existing)]
    /\ pc' = "done"
    /\ PureFrame

---------------------------------------------------------------------------
\* fda_retry_failed.py: main(), the reconciliation workflow: the inventory of
\* the output directory, the scan of the catalogue for missing titles, and the
\* download loop with its session refresh

REFRESH_EVERY == 50
SCAN_LIMIT == 280

LongPages == 6       \* pages of the long catalogue
MaxStalls == 1       \* next-page steps of a scan that leave the page as it was

\* The long catalogue: LongPages pages of ITEMS_PER_PAGE rows with titles of
\* their own, so that the gap set outgrows the refresh cadence
LongSite == Cardinality(Sites) + 1

\* The endless catalogue: a table whose next-page control never goes disabled;
\* its first page and page SCAN_LIMIT list one document each, the other pages
\* none
EndlessSite == LongSite + 1

RetrySites == Sites \cup {LongSite, EndlessSite}

LongEntry(n) == Entry(<<"T">> \o Decimal(n), <<>>, Decimal(n))

EntriesAt(s, p) ==
    IF s = LongSite
    THEN [i \in 1..ITEMS_PER_PAGE |-> LongEntry((p - 1) * ITEMS_PER_PAGE + i)]
    ELSE IF s = EndlessSite
         THEN IF p \in {1, SCAN_LIMIT} THEN <<LongEntry(p)>> ELSE <<>>
         ELSE Catalog(s)[p]

ScanLastPage(s) == IF s = LongSite THEN LongPages ELSE LastPage(s)

\* Whether click_next finds '.next:not(.disabled)' on page v
NextActivatable(s, v) == s = EndlessSite \/ v < ScanLastPage(s)

\* Mutant of LimitReached: the scan has no safety limit
LimitNever(n) == FALSE

\* if page_num >= 280: break
LimitReached(n) == n >= SCAN_LIMIT

\* The row the table renders for an entry: a title link and, when the entry
\* has a document, a download link
RowFor(e) ==
    Row(<<>>,
        <<Link(<<"fda.gov", "/guidance/", "g">>, e.title)>>
          \o (IF e.download_url = <<>> THEN <<>>
              ELSE <<Link(<<"fda.gov", "/media/">> \o e.download_url \o <<"/download">>,
                          <<"P", "D", "F">>)>>))

RenderedPage(s, p) == [i \in 1..Len(EntriesAt(s, p)) |-> RowFor(EntriesAt(s, p)[i])]

\* How the origin answers the requests of one run: any way, request by
\* request, or the same way throughout
ServerModes == {"any", "ok", "error"}

Answers(mode) ==
    CASE mode = "any" -> Responses
      [] mode = "ok" -> {[status |-> 200, body |-> MIN_SIZE + 1, aborted |-> FALSE]}
      [] mode = "error" -> {[status |-> 500, body |-> MIN_SIZE + 1, aborted |-> FALSE]}

InitReconcile ==
    /\ prog = "fda_retry_failed_main"
    /\ args = [start |-> 0, end |-> 0, no_download |-> FALSE]
    /\ site \in RetrySites
    /\ files \in (IF site \in {LongSite, EndlessSite} THEN {NoFiles} ELSE FilesBefore)
    /\ server \in (IF site \in {LongSite, EndlessSite}
                   THEN ServerModes \ {"any"} ELSE {"any"})
    /\ tasks = <<>>
    /\ existing_titles = {} /\ missing_entries = <<>> /\ item_i = 0
    /\ refreshed_at = <<>> /\ fetched = <<>>
    /\ InitWorkflow

ReconcileFrame ==
    UNCHANGED <<rows, extracted, saved_n, method_log, interrupted, cadence_n, page_log,
                prog, args, start_page, end_page, site, nav_i, nav_ok, all_entries,
                seen_titles, new_entries, new_pos, sub_i, tasks, totals, csv,
                batch_log, run, first_run, total_pages, all_pub_entries,
                seen_detail_urls, who_view, fetch_log, submitted, assigned, waited, server,
                pureVars>>

\* scan_existing_files(out_dir), setup_driver, driver.get(BASE_URL) and the
\* wait for the table; a timeout of the wait leaves main() through finally
ReconcileStart ==
    /\ prog = "fda_retry_failed_main" /\ pc = "start"
    /\ existing_titles' = scan_existing_files(DOMAIN files)
    /\ \E loaded \in {"ready", "timeout"} :
         IF loaded = "ready"
         THEN driver' = "running" /\ view' = 1 /\ pc' = "scan"
         ELSE driver' = "quit" /\ view' = view /\ pc' = "done"
    /\ UNCHANGED <<page_num, missing_entries, item_i, refreshed_at, fetched,
                   results, files>>
    /\ ReconcileFrame

\* if not title_exists(entry["title"], existing_titles)
IsMissing(entry, existing) == ~title_exists(entry.title, existing)

\* Next-page steps of this scan that left the page as it was
Stalls == page_num - (view - 1)

\* One pass of "while True": collect_table_rows, the filter, click_next, the
\* safety limit
ReconcileScan ==
    /\ prog = "fda_retry_failed_main" /\ pc = "scan"
    /\ LET entries == collect_table_rows(RenderedPage(site, view))
           page_missing == SelectSeq(entries, LAMBDA e : IsMissing(e, existing_titles))
           clicked == NextActivatable(site, view)
       IN  /\ page_num' = page_num + 1
           /\ missing_entries' = missing_entries \o page_missing
           /\ IF clicked
              THEN /\ view' \in {view + 1} \cup (IF Stalls < MaxStalls THEN {view} ELSE {})
                   /\ pc' = IF LimitReached(page_num') THEN "scanned" ELSE "scan"
              ELSE view' = view /\ pc' = "scanned"
    /\ UNCHANGED <<existing_titles, item_i, refreshed_at, fetched, results, files, driver>>
    /\ ReconcileFrame

\* start_index = len(existing_titles) + 1; idx = start_index + i
GapIndex(existing, i) == Cardinality(existing) + 1 + i

\* filepath of the item at loop index i
GapPath(i) == Filename(GapIndex(existing_titles, i), missing_entries[i + 1].title)

\* Loop indexes whose file another process is taken to write meanwhile
LatePositions == {1, REFRESH_EVERY}

\* The output directory is shared: between the scan and the download loop
\* another process (a second instance of the script, the primary scraper)
\* writes the file of one of the missing items
OtherProcessWrites ==
    /\ prog = "fda_retry_failed_main" /\ pc = "scanned"
    /\ \A j \in LatePositions : j < Len(missing_entries) => GapPath(j) \notin DOMAIN files
    /\ \E j \in LatePositions :
         /\ j < Len(missing_entries)
         /\ files' = WriteFile(files, GapPath(j), MIN_SIZE + 1)
    /\ UNCHANGED <<existing_titles, missing_entries, item_i, refreshed_at, fetched,
                   results, driver, view, page_num, pc>>
    /\ ReconcileFrame

\* "if not missing_entries: return", else the counters of the download loop
ReconcileBegin ==
    /\ prog = "fda_retry_failed_main" /\ pc = "scanned"
    /\ IF missing_entries = <<>>
       THEN pc' = "done" /\ driver' = "quit"
       ELSE pc' = "download" /\ driver' = driver
    /\ item_i' = 0
    /\ results' = ZeroResults
    /\ UNCHANGED <<existing_titles, missing_entries, refreshed_at, fetched, files,
                   view, page_num>>
    /\ ReconcileFrame

\* if i % 50 == 0 and i > 0
RefreshDue(i) == i % REFRESH_EVERY = 0 /\ i > 0

\* One pass of "for i, entry in enumerate(missing_entries)"; after the last
\* one, the finally clause
ReconcileItem ==
    /\ prog = "fda_retry_failed_main" /\ pc = "download"
    /\ LET entry == missing_entries[item_i + 1]
           path == GapPath(item_i)
       IN  IF entry.download_url = <<>>
           THEN /\ results' = [results EXCEPT !.failed = @ + 1]
                /\ UNCHANGED <<files, refreshed_at, fetched>>
           ELSE IF FileBig(files, path)
                THEN UNCHANGED <<results, files, refreshed_at, fetched>>
                ELSE /\ refreshed_at' = IF RefreshDue(item_i)
                                        THEN Append(refreshed_at, item_i)
                                        ELSE refreshed_at
                     /\ fetched' = Append(fetched, entry.title)
                     /\ \E r \in Answers(server) :
                          IF r.status = 200 /\ ~r.aborted /\ r.body > MIN_SIZE
                          THEN /\ files' = WriteFile(files, path, r.body)
                               /\ results' = [results EXCEPT !.downloaded = @ + 1]
                          ELSE /\ files' = files
                               /\ results' = [results EXCEPT !.failed = @ + 1]
    /\ item_i' = item_i + 1
    /\ IF item_i' = Len(missing_entries)
       THEN pc' = "done" /\ driver' = "quit"
       ELSE pc' = "download" /\ driver' = driver
    /\ UNCHANGED <<existing_titles, missing_entries, view, page_num>>
    /\ ReconcileFrame

---------------------------------------------------------------------------
\* fda_optimized.py run twice, one process after the other, on the same output
\* directory: the files and the snapshot stay, everything else starts afresh

InitRerun == InitFda /\ args.no_download

\* Mutant of SeenAtStart: the seen set of the previous run is kept
SeenKept(previous) == previous

\* seen_titles: Set[str] = set()
SeenAtStart(previous) == {}

\* The first run has ended; its outcome is kept for comparison and the program
\* is started again with the same command line
FdaRerun ==
    /\ prog = "fda_optimized" /\ pc = "done" /\ driver = "quit" /\ run = 1
    /\ first_run' = [log |-> page_log, n |-> Len(all_entries), csv |-> csv]
    /\ run' = 2
    /\ pc' = "start"
    /\ start_page' = 0 /\ end_page' = 0 /\ page_num' = 0
    /\ view' = 0 /\ driver' = "none" /\ nav_i' = 0 /\ nav_ok' = TRUE
    /\ all_entries' = <<>> /\ seen_titles' = SeenAtStart(seen_titles)
    /\ new_entries' = <<>> /\ new_pos' = <<>>
    /\ sub_i' = 0 /\ results' = ZeroResults /\ totals' = ZeroResults
    /\ batch_log' = <<>> /\ page_log' = <<>>
    /\ interrupted' = FALSE /\ cadence_n' = -1 /\ saved_n' = -1
    /\ UNCHANGED <<rows, extracted, method_log, prog, args, site, tasks, files,
                   csv, total_pages, all_pub_entries, seen_detail_urls, who_view,
                   fetch_log,
                   submitted, assigned, waited, retryVars, pureVars>>

NextRerun ==
    \/ FdaStart
    \/ FdaNavigate
    \/ FdaPage
    \/ FdaPageEnd
    \/ FdaFinish
    \/ FdaInterrupt
    \/ FdaInterrupted
    \/ FdaRerun

SpecRerun == InitRerun /\ [][NextRerun]_vars

\* fda_optimized.py on the wide catalogue
WideSite == EndlessSite + 1

InitWide ==
    /\ prog = "fda_optimized"
    /\ args \in [start : 0..Len(WideCatalog), end : {Len(WideCatalog)},
                 no_download : BOOLEAN]
    /\ site = WideSite
    /\ files = NoFiles
    /\ tasks = <<>>
    /\ InitCommon

NextWide ==
    \/ FdaStart
    \/ FdaNavigate
    \/ FdaPage
    \/ FdaPageEnd
    \/ FdaFinish
    \/ FdaInterrupt
    \/ FdaInterrupted
    \/ BatchSubmit
    \/ \E k \in 1..Len(tasks) : WorkerStart(k)
    \/ \E k \in 1..Len(tasks) : WorkerRaise(k)
    \/ \E k \in 1..Len(tasks) : WorkerAttempt(k)
    \/ \E k \in 1..Len(tasks) : BatchCollect(k)
    \/ BatchReturn

SpecWide == InitWide /\ [][NextWide]_vars

\* fda_retry_failed.py: main() on its own, where the scan loop, a single
\* thread that blocks in bounded waits only, always gets to make its next pass
NextReconcile ==
    \/ ReconcileStart
    \/ ReconcileScan
    \/ OtherProcessWrites
    \/ ReconcileBegin
    \/ ReconcileItem

\* A pass of the scan loop, seen by its counter "page_num += 1": ReconcileScan
\* is the only step that can be taken while the loop runs, and it is always
\* enabled there
ScanPass == prog = "fda_retry_failed_main" /\ pc = "scan" /\ page_num' = page_num + 1

SpecReconcile == InitReconcile /\ [][NextReconcile]_vars /\ WF_page_num(ScanPass)

Next ==
    \/ FdaStart
    \/ FdaNavigate
    \/ FdaPage
    \/ FdaPageEnd
    \/ FdaFinish
    \/ FdaInterrupt
    \/ FdaInterrupted
    \/ BatchSubmit
    \/ \E k \in 1..Len(tasks) : WorkerStart(k)
    \/ \E k \in 1..Len(tasks) : WorkerRaise(k)
    \/ \E k \in 1..Len(tasks) : WorkerAttempt(k)
    \/ \E k \in 1..Len(tasks) : BatchCollect(k)
    \/ BatchReturn
    \/ RetryStart
    \/ RetryAttempt
    \/ BulkCallStart
    \/ BulkCallAttempt
    \/ WhoStart
    \/ WhoPage
    \/ DirectInput
    \/ DirectClick
    \/ DirectSequential
    \/ Extract
    \/ ExtractRetry
    \/ Sanitize
    \/ TitleExists
    \/ ReconcileStart
    \/ ReconcileScan
    \/ OtherProcessWrites
    \/ ReconcileBegin
    \/ ReconcileItem

Init ==
    \/ InitFda \/ InitRetry \/ InitWho \/ InitDirect \/ InitExtract
    \/ InitSanitize \/ InitTitleExists \/ InitBulkCall \/ InitReconcile

Spec == Init /\ [][Next]_vars

---------------------------------------------------------------------------
\* Properties

Bulk == prog = "fda_optimized"
Reconcile == prog = "fda_retry_failed"
Finished(t) == t.state = "finished"
Total(res) == res.downloaded + res.skipped + res.failed

\* The snapshot of a collection: the header, then one line per entry carrying
\* its 1-based position and its fields
SnapshotLine(i, e) ==
    <<Decimal(i), e.title, e.detail_url, e.download_url, e.date, e.center,
      e.topic, e.status, e.comment>>
Snapshot(collection) ==
    <<Fieldnames>> \o [i \in 1..Len(collection) |-> SnapshotLine(i, collection[i])]

\* C1: the run-wide collection never holds two entries with the same dedupe
\* key: no two entries of all_entries share the same (title, date) pair, and
\* no two entries of all_pub_entries share the same detail URL, whatever pages
\* (repeated or stalled ones included) were extracted.
C1_NoDuplicateKeys ==
    /\ \A i, j \in 1..Len(all_entries) :
         (all_entries[i].title = all_entries[j].title
            /\ all_entries[i].date = all_entries[j].date) => i = j
    /\ \A i, j \in 1..Len(all_pub_entries) :
         all_pub_entries[i][2] = all_pub_entries[j][2] => i = j

\* A page whose extraction held an entry already seen has been filtered
C1_Witness ==
    /\ Bulk /\ pc \in {"submit", "page_end"}
    /\ all_entries # <<>>
    /\ Len(new_entries) < Len(Catalog(site)[view])

\* C2 as claimed: the second call of the download phase over the same batch
\* makes no network fetch and reports every task as already existing, whatever
\* the first call's outcome was.
C2_SecondRunFetchesNothing ==
    run = 2 =>
        \A k \in 1..Len(tasks) :
            /\ tasks[k].fetches = 0
            /\ tasks[k].state # "running"
            /\ Finished(tasks[k]) => tasks[k].result = [success |-> TRUE, message |-> "Exists"]

\* C2 amended: the second call makes no network fetch for any task the first
\* call reported as success (downloaded or already existing) and reports each
\* of them as already existing; only tasks the first call reported as failed
\* are fetched again, and the second aggregate counts as skipped at least the
\* tasks the first one counted as downloaded or skipped.
C2_SucceededTasksNotRefetched ==
    run = 2 =>
        /\ \A k \in 1..Len(tasks) :
              /\ first_run[k].success =>
                    /\ tasks[k].fetches = 0
                    /\ tasks[k].state # "running"
                    /\ Finished(tasks[k]) =>
                          tasks[k].result = [success |-> TRUE, message |-> "Exists"]
              /\ tasks[k].fetches > 0 => ~first_run[k].success
        /\ Len(batch_log) = 2 =>
              /\ batch_log[2].results.skipped
                    = batch_log[1].results.skipped + batch_log[1].results.downloaded
              /\ batch_log[2].results.downloaded + batch_log[2].results.failed
                    = batch_log[1].results.failed

\* The second call found a file the first call had downloaded
C2_Witness ==
    /\ run = 2
    /\ \E k \in 1..Len(tasks) :
         /\ first_run[k] = [success |-> TRUE, message |-> "filename"]
         /\ tasks[k].result = [success |-> TRUE, message |-> "Exists"]
         /\ tasks[k].fetches = 0

\* C3: the per-task download procedure returns a result after a bounded
\* number of network fetches: never more than 3 in download_file_with_session
\* and never more than 2 in download_file of the retry module; a task still in
\* its retry loop has made fewer fetches than the cap, one per pass made.
C3_BoundedFetches ==
    \A k \in 1..Len(tasks) :
        LET t == tasks[k]
            cap == IF Reconcile THEN 2 ELSE 3
        IN  /\ t.fetches <= cap
            /\ t.state = "running" => t.fetches < cap /\ t.fetches = t.attempt
            /\ t.state = "queued" => t.fetches = 0
            /\ Finished(t) => t.result.message # "none"

\* A bulk task that has used all three fetches and returned
C3_Witness ==
    /\ Bulk
    /\ \E k \in 1..Len(tasks) :
         Finished(tasks[k]) /\ tasks[k].fetches = 3 /\ ~tasks[k].result.success

\* C4: in download_file of the retry module a 404 response ends the task at
\* once with a failure and no fetch follows it, whereas any other status than
\* 200 on the first attempt is followed by a second attempt.
C4_NotFoundIsTerminal ==
    Reconcile =>
        /\ \A i \in 1..Len(fetch_log) :
              fetch_log[i] = 404 =>
                 /\ i = Len(fetch_log)
                 /\ Finished(tasks[1])
                 /\ ~tasks[1].result.success
                 /\ pc = "done"
        /\ (Len(fetch_log) = 1 /\ fetch_log[1] \notin {0, 200, 404}) =>
              tasks[1].state = "running" /\ tasks[1].attempt = 1

\* A first attempt answered 500 was retried, and the retry answered 404
C4_Witness ==
    Reconcile /\ fetch_log = <<500, 404>> /\ Finished(tasks[1])

\* C5: whenever a pass of the retry loop with an accepted status writes a file
\* no larger than 1000 bytes, the file is removed and the pass does not yield
\* success; a task returns success only when, at that moment, a file larger
\* than 1000 bytes exists at its target path.
C5_UndersizedWriteRejected ==
    \A k \in 1..Len(tasks) :
        LET t == tasks[k]
        IN  /\ t.short_write =>
                 /\ t.path \notin DOMAIN files
                 /\ ~(Finished(t) /\ t.result.success)
            /\ (Finished(t) /\ t.result.success) => t.size_at_return > 1000

\* An undersized write has just been rejected
C5_Witness ==
    \E k \in 1..Len(tasks) : tasks[k].short_write /\ tasks[k].state = "running"

\* C6: in download_file_with_session every path that uses up the three passes
\* without returning from the post-write size check makes exactly one final
\* existence/size check, and failure is reported only when that check found no
\* file larger than 1000 bytes.
C6_FinalCheckBeforeFailure ==
    Bulk =>
        \A k \in 1..Len(tasks) :
            LET t == tasks[k]
            IN  /\ t.final_checks <= 1
                /\ (Finished(t) /\ t.fetches = 3 /\ t.final_checks = 0) =>
                      t.result = [success |-> TRUE, message |-> "filename"]
                /\ (Finished(t) /\ ~t.result.success) =>
                      /\ t.fetches = 3
                      /\ t.final_checks = 1
                      /\ ~(t.size_at_return > 1000)
                /\ (Finished(t) /\ t.final_checks = 1 /\ t.size_at_return > 1000) =>
                      t.result.success

\* The final check found the file although the last pass ended in an error
C6_Witness ==
    /\ Bulk
    /\ \E k \in 1..Len(tasks) :
         /\ Finished(tasks[k]) /\ tasks[k].fetches = 3 /\ tasks[k].final_checks = 1
         /\ tasks[k].result.success

BatchPhase == pc \in {"submit", "collect", "unwinding"}

\* C7: download_batch_parallel returns its aggregate only after every task
\* submitted for the batch has completed: a task is in flight only while the
\* control thread is inside the call for the page that task belongs to, so no
\* task of a batch runs after its aggregate was returned and none of the next
\* batch starts before.
C7_BatchCompletesBeforeReturn ==
    Bulk =>
        /\ ~BatchPhase => tasks = <<>>
        /\ \A k \in 1..Len(tasks) :
              /\ tasks[k].idx >= StartIdx(page_num)
              /\ tasks[k].idx < StartIdx(page_num) + Len(new_entries)
        /\ BatchPhase => \A b \in 1..Len(batch_log) : batch_log[b].page < page_num

\* A task of the second batch runs after the first batch's aggregate was returned
C7_Witness ==
    /\ Bulk /\ pc = "collect" /\ Len(batch_log) = 1
    /\ Total(batch_log[1].results) = 2
    /\ \E k \in 1..Len(tasks) : tasks[k].state = "running"

\* C8: no two download tasks that resolve to the same target path are in
\* flight at the same time.
C8_NoSharedTargetPath ==
    \A i, j \in 1..Len(tasks) :
        (i # j /\ InFlight(tasks[i]) /\ InFlight(tasks[j])) =>
            tasks[i].path # tasks[j].path

\* Two tasks whose entries have the same title run at the same time
C8_Witness ==
    \E i, j \in 1..Len(tasks) :
        /\ i # j
        /\ tasks[i].state = "running" /\ tasks[j].state = "running"
        /\ tasks[i].entry.title = tasks[j].entry.title

RECURSIVE SumLog(_, _)
SumLog(log, n) ==
    IF n = 0 THEN ZeroResults
    ELSE LET rest == SumLog(log, n - 1)
         IN  [downloaded |-> rest.downloaded + log[n].results.downloaded,
              skipped |-> rest.skipped + log[n].results.skipped,
              failed |-> rest.failed + log[n].results.failed]

\* C9: every entry of a batch is attributed exactly one outcome: the returned
\* aggregate satisfies downloaded + skipped + failed = number of entries of the
\* batch, while the batch runs the aggregate counts the entries skipped for
\* lack of a URL and the futures already collected, and the run totals are the
\* sum of the per-batch aggregates.
C9_EveryEntryCountedOnce ==
    Bulk =>
        /\ \A b \in 1..Len(batch_log) : Total(batch_log[b].results) = batch_log[b].n
        /\ totals = SumLog(batch_log, Len(batch_log))
        /\ BatchPhase =>
              Total(results)
                = Cardinality({i \in 1..sub_i : new_entries[i].download_url = <<>>})
                  + Cardinality({k \in 1..Len(tasks) : tasks[k].collected})

\* Two batches were returned, with a download, a skip and a failure among them
C9_Witness ==
    /\ Bulk /\ Len(batch_log) = 2
    /\ totals.downloaded >= 1 /\ totals.skipped >= 1 /\ totals.failed >= 1

\* C10: the sequence index of an entry is determined by its page position
\* alone: (page - 1) * ITEMS_PER_PAGE + its offset among the entries extracted
\* from that page, whichever other entries of the page were dropped as
\* duplicates.
C10_IndexFromPagePosition ==
    Bulk =>
        \A k \in 1..Len(tasks) :
            tasks[k].idx = (page_num - 1) * ITEMS_PER_PAGE + tasks[k].pos

\* C11: navigate_to_page_direct tries its strategies in the fixed order direct
\* input, direct index click, sequential fallback, and returns success at the
\* first one that located and activated its control; the sequential fallback
\* is invoked exactly when both direct strategies failed to locate or activate
\* their control, and once invoked it reports failure only when a click of its
\* loop found no enabled next-page control.
C11_StrategyOrder ==
    prog = "navigate_to_page_direct" =>
        /\ Len(method_log) <= 3
        /\ \A i \in 1..Len(method_log) :
              /\ method_log[i].method = <<"input", "click", "sequential">>[i]
              /\ method_log[i].outcome = "works" =>
                    i = Len(method_log) /\ pc = "done" /\ nav_ok
        /\ Len(method_log) = 3 <=>
              /\ Len(method_log) >= 2
              /\ method_log[1].outcome # "works"
              /\ method_log[2].outcome # "works"
              /\ pc # "method3"
        /\ (pc = "done" /\ Len(method_log) = 3 /\ ~nav_ok) =>
              nav_i < start_page - 1 /\ ~NextEnabled(site, view)
        /\ (pc = "done" /\ Len(method_log) = 3 /\ nav_ok) => nav_i = start_page - 1

\* Both direct strategies failed and the sequential fallback clicked its way
\* to the end of its loop
C11_Witness ==
    /\ prog = "navigate_to_page_direct" /\ pc = "done" /\ nav_ok
    /\ Len(method_log) = 3 /\ nav_i >= 1
    /\ method_log[1].outcome = "absent" /\ method_log[2].outcome = "raises"

\* C12: whenever a navigation step of the primary scrape reports failure, no
\* further page is extracted in that run and the accumulated collection is
\* written to the snapshot before the run ends.  For the initial jump to the
\* start page, which precedes every extraction: after navigate_sequential_fast
\* returned False the page loop has extracted nothing, and the run ends with
\* the snapshot of the collection.
C12_NavigationFailureStopsExtraction ==
    (Bulk /\ ~nav_ok) =>
        /\ pc \in {"page", "final_save", "interrupted", "done"}
        /\ page_num = start_page
        /\ all_entries = <<>> /\ new_entries = <<>>
        /\ pc = "done" => csv = Snapshot(all_entries)

\* C13: when a KeyboardInterrupt arrives at any point after the driver was
\* started, the run stops what it was doing, writes the collection it holds to
\* the snapshot, and only then quits the driver.
C13_InterruptFlushesBeforeQuit ==
    (Bulk /\ interrupted) =>
        /\ pc \in {"interrupted", "unwinding", "done"}
        /\ driver = "quit" => csv = Snapshot(all_entries)

\* C14: on every path by which a started run stops early (pagination failure,
\* timeout of the initial load, a fault raised by the driver) the collection is
\* written to the snapshot before the run ends: a run that has quit its driver
\* has left the snapshot of its collection.
C14_EveryEarlyStopFlushes ==
    (Bulk /\ pc = "done" /\ driver = "quit") => csv = Snapshot(all_entries)

\* C15: the snapshot is written after every page whose number is a multiple
\* of 10 and at normal completion, so at any moment of the run the snapshot
\* holds every entry collected by the end of the most recent such page; what
\* the snapshot holds is always a leading part of the collection, so the
\* entries missing from it are only those collected since it was written.
C15_SnapshotCoversLastCadencePage ==
    Bulk =>
        /\ cadence_n >= 0 =>
              /\ csv # NoCsv
              /\ Len(csv) >= 1 + cadence_n
              /\ \A i \in 1..cadence_n : csv[i + 1] = SnapshotLine(i, all_entries[i])
        /\ csv # NoCsv =>
              /\ Len(csv) <= 1 + Len(all_entries)
              /\ csv = Snapshot(SubSeq(all_entries, 1, Len(csv) - 1))
        /\ (pc = "done" /\ csv # NoCsv) => csv = Snapshot(all_entries)

\* Page 10 was checkpointed with entries in the collection, and page 11 has
\* added entries the snapshot does not hold yet
C15_Witness ==
    /\ Bulk /\ pc = "page_end" /\ page_num = 11
    /\ cadence_n >= 1 /\ Len(all_entries) > cadence_n
    /\ Len(csv) = 1 + cadence_n

\* C16: after every checkpoint write the snapshot is the header followed by
\* exactly one line per entry the collection held at that moment, in collection
\* order, line i carrying index i; nothing of the previous content remains.
C16_SnapshotIsHeaderAndRows ==
    (Bulk /\ saved_n >= 0) =>
        /\ saved_n <= Len(all_entries)
        /\ Len(csv) = 1 + saved_n
        /\ csv[1] = Fieldnames
        /\ \A i \in 1..saved_n :
              /\ csv[i + 1][1] = Decimal(i)
              /\ csv[i + 1] = SnapshotLine(i, all_entries[i])

\* The final write replaced the snapshot written after page 10, which held
\* fewer entries
C16_Witness ==
    /\ Bulk /\ pc = "done" /\ cadence_n >= 1
    /\ saved_n > cadence_n /\ Len(csv) = 1 + saved_n

\* C17 as claimed: when two successive runs extract the same entries in the
\* same order, the second run's deduplicator reports 0 new entries and the
\* snapshot the second run leaves is identical to the first run's.
C17_SecondRunFindsNothingNew ==
    (run = 2 /\ pc = "done" /\ driver = "quit" /\ page_log = first_run.log
        /\ first_run.csv # NoCsv) =>
        /\ Len(all_entries) = 0
        /\ csv = first_run.csv

\* C17 amended: when two successive runs extract the same entries in the same
\* order, the second run's deduplicator, which starts from an empty seen set,
\* reports as new exactly the entries the first run's reported, and the
\* snapshot the second run leaves is identical to the first run's.
C17_SecondRunCollectsTheSame ==
    (run = 2 /\ pc = "done" /\ driver = "quit" /\ page_log = first_run.log
        /\ first_run.csv # NoCsv) =>
        /\ Len(all_entries) = first_run.n
        /\ csv = first_run.csv
        /\ saved_n >= 0 => csv = Snapshot(all_entries)

\* Both runs extracted the same two pages or more and collected entries
C17_Witness ==
    /\ run = 2 /\ pc = "done" /\ driver = "quit" /\ saved_n >= 2
    /\ page_log = first_run.log /\ Len(page_log) >= 2
    /\ Len(all_entries) = first_run.n
    /\ \E i \in 1..Len(page_log) : Len(page_log[i]) >= 2

\* A title can be recovered from a row: a link that is not the artifact
\* reference, is a detail link or another link of the site, and has text; or
\* text in the second cell
TitleLink(l) ==
    ~IsDownload(l.href) /\ (IsDetail(l.href) \/ IsFda(l.href)) /\ Strip(l.text) # <<>>
Recoverable(row) ==
    /\ ~row.stale
    /\ \/ \E i \in 1..Len(row.links) : TitleLink(row.links[i])
       \/ Len(row.cells) >= 2 /\ Strip(row.cells[2]) # <<>>
Unrecoverable(page) == {i \in 1..Len(page) : ~Recoverable(page[i])}
TooShort(page) == {i \in 1..Len(page) : Len(page[i].cells) < 2}
FastDone == prog = "collect_table_rows_fast" /\ pc = "done"

\* C18 as claimed: every entry the extractor produces has a non-empty title,
\* and a page of n rows of which k have no recoverable title yields exactly
\* n - k entries.
C18_OneEntryPerTitledRow ==
    FastDone =>
        /\ \A i \in 1..Len(extracted) : extracted[i].title # <<>>
        /\ Len(extracted) = Len(rows) - Cardinality(Unrecoverable(rows))

\* C18 amended: every entry the extractor produces, and hence every entry of
\* the collection and every line of the snapshot, has a non-empty title; a row
\* with fewer than two cells, or from which no title can be recovered,
\* produces no entry, so a page of n rows of which k are of either kind yields
\* exactly n - k entries.
C18_OneEntryPerTitledFullRow ==
    /\ FastDone =>
          /\ \A i \in 1..Len(extracted) : extracted[i].title # <<>>
          /\ Len(extracted)
                = Len(rows) - Cardinality(Unrecoverable(rows) \cup TooShort(rows))
    /\ Bulk =>
          /\ \A i \in 1..Len(all_entries) : all_entries[i].title # <<>>
          /\ csv # NoCsv => \A i \in 2..Len(csv) : csv[i][2] # <<>>

\* Three rows were rendered, one of them without a title, and two entries
\* were produced
C18_Witness ==
    /\ FastDone /\ Len(rows) = 3 /\ Len(extracted) = 2
    /\ Cardinality(Unrecoverable(rows)) = 1 /\ TooShort(rows) = {}

DownloadLinks(row) == {i \in 1..Len(row.links) : IsDownload(row.links[i].href)}
TitleLinks(row) ==
    {i \in 1..Len(row.links) :
        IF prog = "collect_table_rows_fast"
        THEN TitleLink(row.links[i])
        ELSE ~IsDownload(row.links[i].href) /\ Strip(row.links[i].text) # <<>>}
First(S) == CHOOSE i \in S : \A j \in S : i <= j

\* C19: in both field extractors the first qualifying link of each class, in
\* document order, supplies the field and later links of the class are
\* ignored: the download URL of an entry is the href of the first
\* download-shaped link of its row, and its title the text of the first link
\* that qualifies as a title source.
C19_FirstLinkOfEachClassWins ==
    (prog \in Extractors /\ pc = "done" /\ Len(rows) = 1 /\ Len(extracted) = 1) =>
        LET row == rows[1]
            e == extracted[1]
        IN  /\ DownloadLinks(row) # {} =>
                  e.download_url = row.links[First(DownloadLinks(row))].href
            /\ TitleLinks(row) # {} =>
                  e.title = Strip(row.links[First(TitleLinks(row))].text)

NoUrl(list, n) == {i \in 1..n : list[i].download_url = <<>>}

\* C20: an entry with a title but no download URL is appended to the
\* collection and appears in the snapshot; no download task is ever started
\* for it, no file is written under its name, and the batch aggregate counts it
\* as skipped.
C20_NoUrlEntryKeptAndSkipped ==
    Bulk =>
        /\ \A k \in 1..Len(tasks) : tasks[k].entry.download_url # <<>>
        /\ \A i \in 1..Len(new_entries) :
              \E j \in 1..Len(all_entries) : all_entries[j] = new_entries[i]
        /\ \A i \in NoUrl(all_entries, Len(all_entries)) :
              /\ i <= saved_n =>
                    csv[i + 1] = SnapshotLine(i, all_entries[i]) /\ csv[i + 1][4] = <<>>
              /\ \A path \in DOMAIN files :
                    ~HasIndexPrefix(path)
                      \/ SubSeq(path, PREFIX_LEN + 1, Len(path))
                           # sanitize_filename(all_entries[i].title) \o Pdf
        /\ BatchPhase =>
              results.skipped >= Cardinality(NoUrl(new_entries, sub_i))
        /\ (pc = "page_end" /\ ~args.no_download /\ new_entries # <<>>) =>
              LET last == batch_log[Len(batch_log)].results
                  n == Cardinality(NoUrl(new_entries, Len(new_entries)))
              IN  /\ last.skipped >= n
                  /\ last.downloaded + last.failed <= Len(new_entries) - n

\* A run that downloads has ended with an entry without URL in its snapshot
\* and in its skipped count
C20_Witness ==
    /\ Bulk /\ pc = "done" /\ ~args.no_download /\ saved_n >= 2
    /\ NoUrl(all_entries, Len(all_entries)) # {}
    /\ totals.skipped >= 1 /\ totals.downloaded >= 1

----------------------------------------------------------------------------
\* C21: in a run of the primary workflow no entry, identified by its dedupe
\* key, is handed to the download orchestrator more than once, and the entries
\* being handed over are exactly the ones the current page added to the
\* collection, even when the same page is extracted repeatedly.
LastN(seq, n) == SubSeq(seq, Len(seq) - n + 1, Len(seq))

C21_NoEntrySubmittedTwice ==
    Bulk =>
      /\ \A i, j \in 1..Len(submitted) : submitted[i] = submitted[j] => i = j
      /\ \A i \in 1..Len(submitted) : submitted[i] \in seen_titles
      /\ pc = "submit" =>
            /\ Len(new_entries) <= Len(all_entries)
            /\ new_entries = LastN(all_entries, Len(new_entries))
            /\ \A i \in 1..sub_i :
                  submitted[Len(submitted) - sub_i + i] = DedupeKey(new_entries[i])

\* A page was extracted twice in a row and its entries were submitted
C21_Witness ==
    /\ Bulk /\ pc = "page_end" /\ ~args.no_download
    /\ Len(page_log) >= 2 /\ page_log[1] = page_log[2] /\ page_log[1] # <<>>
    /\ Len(submitted) >= 2

----------------------------------------------------------------------------
\* C22: whenever the output directory holds the file the downloader writes
\* for an entry's title under an index it may assign, scan_existing_files
\* followed by title_exists recognises the title, so the entry is not put
\* into the missing set.
C22_DownloadedFileIsRecognised ==
    (prog = "title_exists" /\ pc = "done") =>
      (Filename(input.index, input.title) \in input.folder => output.found)

\* A title that sanitize_filename has to rewrite, found through its file
C22_Witness ==
    /\ prog = "title_exists" /\ pc = "done"
    /\ Filename(input.index, input.title) \in input.folder
    /\ input.title # Lower(sanitize_filename(input.title))
    /\ input.index > 1
    /\ output.found

\* C26: sanitize_filename returns, for every input, a non-empty name of at
\* most 150 characters that contains no forbidden character, neither starts
\* nor ends with whitespace, and in which whitespace only occurs as single
\* spaces.
C26_SanitizedNameIsBounded ==
    (prog = "sanitize_filename" /\ pc = "done") =>
      /\ output # <<>>
      /\ Len(output) <= MAX_NAME
      /\ \A i \in 1..Len(output) : output[i] \notin Forbidden
      /\ output[1] \notin Whitespace /\ output[Len(output)] \notin Whitespace
      /\ \A i \in 1..Len(output) : output[i] \in Whitespace =>
            /\ output[i] = " "
            /\ i < Len(output) => output[i + 1] \notin Whitespace

\* A name longer than the limit whose cut leaves whitespace at the end
C26_Witness ==
    /\ prog = "sanitize_filename" /\ pc = "done"
    /\ Len(input) > MAX_NAME /\ input[MAX_NAME] \in Whitespace
    /\ Len(output) = MAX_NAME - 1

----------------------------------------------------------------------------
\* C27: the sequential fallback activates the next-page control exactly
\* target - 1 times when every activation succeeds and then reports success;
\* the first activation that fails makes it report failure at once, with the
\* activations made so far and no further one.
SequentialReturned ==
    \/ prog = "fda_optimized" /\ pc = "page" /\ page_log = <<>> /\ start_page > 1
    \/ /\ prog = "navigate_to_page_direct" /\ pc = "done" /\ method_log # <<>>
       /\ method_log[Len(method_log)].method = "sequential"

C27_SequentialClickCount ==
    /\ (prog \in SequentialCallers /\ nav_i > 0) => nav_i <= start_page - 1
    /\ SequentialReturned =>
         /\ nav_ok <=> nav_i = start_page - 1
         /\ ~nav_ok => ~NextEnabled(site, view)

\* The fallback gave up after at least one successful activation
C27_Witness ==
    /\ SequentialReturned /\ ~nav_ok /\ nav_i >= 1
    /\ nav_i < start_page - 1

----------------------------------------------------------------------------
\* C24: every successful navigation of the primary workflow, the jump to the
\* starting page as well as each later next-page step, is followed by the
\* wait for the table before the page is extracted (claim as stated; the
\* next-page step is followed by a fixed sleep only).
JustExtracted == Bulk /\ pc \in {"submit", "collect", "page_end"}

C24_EveryNavigationIsAwaited ==
    (JustExtracted /\ (page_num > start_page \/ (start_page > 1 /\ nav_ok))) => waited

----------------------------------------------------------------------------
\* C25: a download task that fails, by returning a failure or by raising in
\* the worker, is counted as failed and never stops the run: the run of the
\* primary workflow leaves the page loop only after the last page of the
\* range or when the next-page step fails.
LoopLeft ==
    /\ Bulk /\ page_log # <<>>
    /\ pc = "final_save" \/ (pc = "done" /\ ~interrupted)

C25_FailedTaskNeverStopsTheRun ==
    /\ LoopLeft => (page_num = end_page \/ ~NextEnabled(site, view))
    /\ (Bulk /\ pc = "collect") =>
         results.failed =
           Cardinality({k \in 1..Len(tasks) :
                          /\ tasks[k].collected
                          /\ Raised(tasks[k]) \/ ~tasks[k].result.success})

\* The batch of an earlier page had a failed task, and on the page after it a
\* task that raised in the worker has been collected
C25_Witness ==
    /\ Bulk /\ pc = "collect"
    /\ batch_log # <<>> /\ batch_log[Len(batch_log)].results.failed >= 1
    /\ batch_log[Len(batch_log)].page < page_num
    /\ \E k \in 1..Len(tasks) : Raised(tasks[k]) /\ tasks[k].collected

----------------------------------------------------------------------------
\* C28: in the bulk download procedure any two consecutive fetch attempts of
\* a call are separated by a backoff delay, whatever made the earlier one fail
\* (claim as stated: every pass that is followed by another pass ended in the
\* delay).
C28_BackoffBetweenAttempts ==
    prog = "download_file_with_session" =>
      \A i \in 1..(Len(fetch_log) - 1) : fetch_log[i].delay

----------------------------------------------------------------------------
\* C30: in the primary field extractor a fallback-class link supplies the
\* title only as a last resort: whenever a row has a detail-class link with
\* non-empty text, the entry's title and detail URL come from the first such
\* link, wherever the fallback-class links stand in the row (claim as stated).
DetailLinks(row) ==
    {i \in 1..Len(row.links) :
        /\ ~IsDownload(row.links[i].href) /\ IsDetail(row.links[i].href)
        /\ Strip(row.links[i].text) # <<>>}

C30_DetailLinkBeatsFallback ==
    (prog = "collect_table_rows_fast" /\ pc = "done"
       /\ Len(rows) = 1 /\ Len(extracted) = 1) =>
        LET row == rows[1]
            e == extracted[1]
        IN  DetailLinks(row) # {} =>
              /\ e.title = Strip(row.links[First(DetailLinks(row))].text)
              /\ e.detail_url = row.links[First(DetailLinks(row))].href

----------------------------------------------------------------------------
\* C23: in the reconciliation workflow the session is refreshed on a fixed
\* item cadence: for every k >= 1 such that the gap set has more than 50k
\* items, the refresh of loop index 50k has taken place once the item at that
\* index has been processed, whatever the outcomes of the items (claim as
\* stated).
ReconcileMain == prog = "fda_retry_failed_main"

C23_RefreshEveryFiftyItems ==
    (ReconcileMain /\ pc \in {"download", "done"}) =>
      \A k \in 1..(Len(missing_entries) \div REFRESH_EVERY) :
        (Len(missing_entries) > REFRESH_EVERY * k /\ item_i > REFRESH_EVERY * k) =>
          \E n \in 1..Len(refreshed_at) : refreshed_at[n] = REFRESH_EVERY * k

\* C29: in the reconciliation workflow a title observed more than once
\* during the scan appears at most once in the missing set and is fetched at
\* most once (claim as stated).
GapTitle(i) == Strip(Lower(sanitize_filename(missing_entries[i].title)))

C29_MissingSetHasNoRepeats ==
    ReconcileMain =>
      /\ \A i, j \in 1..Len(missing_entries) : GapTitle(i) = GapTitle(j) => i = j
      /\ \A i, j \in 1..Len(fetched) : fetched[i] = fetched[j] => i = j

----------------------------------------------------------------------------
\* C31: the reconciliation scanner treats a catalogue entry as already
\* present only if some local file's stem (index prefix stripped, lower-cased)
\* equals the entry's sanitized lower-cased title or agrees with it on the
\* whole of their first 50 characters; a short existing name that is merely a
\* prefix of the title does not hide the entry (claim as stated).
FirstChars(s) == SubSeq(s, 1, Min(Len(s), SHORT_LEN))

SameDocument(stem, title) ==
    LET sanitized == Strip(Lower(sanitize_filename(title)))
    IN  stem = sanitized \/ FirstChars(stem) = FirstChars(sanitized)

C31_PresentOnlyIfSomeFileMatches ==
    (prog = "title_exists" /\ pc = "done" /\ output.found) =>
      \E stem \in output.existing : SameDocument(stem, input.title)

----------------------------------------------------------------------------
\* C32: when the bulk download procedure returns a failure, no file of at
\* most the threshold size that one of its passes wrote is left at the target
\* path, also when a pass was ended by an exception in the middle of
\* streaming (claim as stated; only the size check that follows a complete
\* write removes the file).
WroteTarget == \E i \in 1..Len(fetch_log) : Accepted(fetch_log[i].status)

C32_FailureLeavesNoUndersizedFile ==
    (prog = "download_file_with_session" /\ pc = "done"
       /\ ~tasks[1].result.success /\ WroteTarget) =>
        ~(tasks[1].path \in DOMAIN files /\ files[tasks[1].path] <= MIN_SIZE)

----------------------------------------------------------------------------
\* C33: whenever the sequential fallback reports success for a target page,
\* the table shows that page, from whatever page it showed when the fallback
\* was called and whether or not the first-page control was available for the
\* reset (claim as stated; the fallback counts its activations and never looks
\* at the page the table shows).
C33_SequentialSuccessMeansOnTarget ==
    (SequentialReturned /\ nav_ok) => view = start_page

----------------------------------------------------------------------------
\* C34: across a whole run of the primary workflow two distinct entries of
\* the collection are never given the same index, and never resolve to the
\* same target path (claim as stated; the index is the page's start index
\* plus the offset among the page's new entries, and nothing keeps that
\* offset below ITEMS_PER_PAGE).
C34_IndexesNeverShared ==
    Bulk =>
      \A i, j \in 1..Len(assigned) :
        assigned[i].entry # assigned[j].entry =>
          /\ assigned[i].idx # assigned[j].idx
          /\ Filename(assigned[i].idx, assigned[i].entry.title)
               # Filename(assigned[j].idx, assigned[j].entry.title)

----------------------------------------------------------------------------
\* C35: the collection of a run only grows at its end and its entries never
\* change: in every step of a run the collection before the step is a prefix
\* of the collection after it, and a snapshot the run has written is, line
\* for line, a prefix of every snapshot the run writes later.
IsPrefix(s, t) == Len(s) <= Len(t) /\ SubSeq(t, 1, Len(s)) = s

C35_CollectionIsAppendOnly ==
    [][(Bulk /\ run' = run) =>
         /\ IsPrefix(all_entries, all_entries')
         /\ saved_n >= 0 => IsPrefix(csv, csv')]_vars

\* An interrupted run whose last snapshot holds the lines of the snapshot
\* written after page 10 and more lines after them
C35_Witness ==
    /\ Bulk /\ pc = "done" /\ interrupted
    /\ cadence_n >= 1 /\ saved_n > cadence_n
    /\ Len(csv) = 1 + saved_n
    /\ SubSeq(csv, 1, 1 + cadence_n) = Snapshot(SubSeq(all_entries, 1, cadence_n))

----------------------------------------------------------------------------
\* C36: the scan of the reconciliation workflow always terminates: its page
\* loop ends when the next-page control cannot be activated or after at most
\* 280 pages have been extracted, even when the control stays activatable
\* forever, and the download of the gap set begins only then.
ScanOver == page_num = SCAN_LIMIT \/ ~NextActivatable(site, view)

C36_ScanTerminates ==
    /\ [](ReconcileMain =>
            /\ page_num <= SCAN_LIMIT
            /\ pc = "scan" => page_num < SCAN_LIMIT
            /\ pc \in {"scanned", "download"} => ScanOver
            /\ (fetched # <<>> \/ item_i > 0) => ScanOver)
    /\ (ReconcileMain /\ pc = "scan") ~> (pc # "scan")

\* The scan was stopped by the limit while the control could still be
\* activated, and the download loop has fetched an item
C36_Witness ==
    /\ ReconcileMain /\ pc \in {"download", "done"}
    /\ page_num = SCAN_LIMIT /\ NextActivatable(site, view)
    /\ fetched # <<>>

============================================================================
